---- MODULE Spec2Model ----
(***************************************************************************)
(* Batch validation and reconciliation engine of the change-management     *)
(* audit agents (ApproverValidationAgent, SODViolationDetectionAgent).     *)
(*                                                                         *)
(* Each component is a specification of its own over the shared variables: *)
(*   SpecApprover  validate_approvers_with_ai and its reconciliation       *)
(*   SpecSOD       detect_sod_violations_with_ai, its reconciliation and   *)
(*                 the exception-reason canonicalizer                      *)
(*   SpecCanon     _standardize_exception_reasons on one row               *)
(*   SpecRetry     _call_ai_with_thread_and_run and _poll_for_completion   *)
(*                 for one batch; SpecRetryFair adds fairness              *)
(*   SpecDispatch  _process_batches_async over concurrent batch tasks      *)
(*   SpecParser    _extract_json_from_text of both agents                  *)
(*   SpecWorkflows either workflow, as main.py selects it                  *)
(*   SpecContext   _prepare_merged_data over the three input tables        *)
(*   SpecPartition the batch loop of _process_batches_with_ai              *)
(*   SpecRun       run() of both agents, stage by stage                    *)
(*   SpecApproverBatches    the approver reconciliation over two batches   *)
(*   SpecValidationContext  _prepare_data_for_validation                   *)
(*   SpecScheduler start(), stop() and the loop threads of utils.Scheduler *)
(***************************************************************************)
EXTENDS Integers, Sequences, FiniteSets, TLC

VARIABLES
    pc,                 \* position of the workflow under study
    merged_data,        \* approver: rows handed to the batches (original_data)
    batch_results,      \* what _process_batches_async returned, one list per batch
    validation_results, \* approver: self.validation_results
    merged_df,          \* SOD: joined context rows (_prepare_merged_data)
    violations_data,    \* SOD: self.violations_data
    ret,                \* return value of the workflow method: None until it returns
    has_client,         \* hasattr(self, 'client')
    max_retries,        \* parameter of _call_ai_with_thread_and_run
    poll_max_retries,   \* parameter of _poll_for_completion
    agents,             \* backend: number of agents list_agents() yields
    task_pc,            \* per batch task: the call it is about to make
    retry_count,        \* per task: retry_count of _call_ai_with_thread_and_run
    poll_count,         \* per task: retry_count of _poll_for_completion
    thread_id,          \* per task: the local thread_id
    result,             \* per task: what the task returned
    threads_created,    \* backend: threads.create() calls received, per task
    pending_limit,      \* backend: most polls of one run it leaves without a final answer
    finished,           \* event loop: the batch tasks in the order they returned
    sleeps,             \* per task: time.sleep(2) calls of _call_ai_with_thread_and_run
    text,               \* parser: the response text, as its tokens
    parsed,             \* parser: what _extract_json_from_text returned
    change_migration_data,  \* SOD: the subject records (self.change_migration_data)
    deployment_log_data,    \* SOD: the deployment log (self.deployment_log_data)
    iam_users_data,         \* SOD: the identity roster (self.iam_users_data)
    batches,            \* partitioner: the list batches of _process_batches_with_ai
    batch_start,         \* partitioner: the loop variable i of its for loop
    workflow,           \* run(): the agent whose run() it is
    inputs,             \* file system: the condition of every input file
    calls,              \* run(): the stage methods called so far, in order
    running,            \* Scheduler: self.running
    sched_status,       \* Scheduler: self.status
    threads,            \* Scheduler: where every _run_scheduler thread started so far is
    caller,             \* the thread that calls start() and stop(): idle or inside stop()
    last_call           \* the last call of start() or stop() that returned, and its value

reportVars == <<merged_data, validation_results, merged_df, violations_data, ret>>
clientVars == <<has_client, max_retries, poll_max_retries, agents, task_pc, retry_count,
                poll_count, thread_id, result, threads_created, pending_limit,
                finished, sleeps>>
parserVars == <<text, parsed>>
tableVars == <<change_migration_data, deployment_log_data, iam_users_data>>
partVars == <<batches, batch_start>>
runVars == <<workflow, inputs, calls>>
schedVars == <<running, sched_status, threads, caller, last_call>>
vars == <<pc, batch_results, reportVars, clientVars, parserVars, tableVars, partVars, runVars,
          schedVars>>

\* ------------------------------------------------------------------ bounds
MaxRows == 2        \* largest number of subject records
MaxOutcomes == 2    \* largest number of outcomes one batch returns

\* --------------------------------------------------------------- constants
batch_size == 10

\* ------------------------------------------------------------ shared data
NaN == "NaN"        \* pandas' missing value
None == "None"      \* Python's None

\* A report attribute (self.validation_results, self.violations_data): None
\* until a reconciliation assigns it a DataFrame, here its rows in order
NoReport == [set |-> FALSE, rows |-> <<>>]
DataFrame(rows) == [set |-> TRUE, rows |-> rows]

ChangeID(i) == "CHG" \o ToString(i)

RECURSIVE Flatten(_)
\* all_results.extend(results), batch by batch, skipping falsy batch results
Flatten(brs) ==
    IF brs = <<>> THEN <<>>
    ELSE Head(brs) \o Flatten(Tail(brs))

\* str.lower() on the key names a backend outcome is given here
Lower(k) ==
    CASE k \in {"Change_ID", "change_id", "CHANGE_ID"} -> "change_id"
      [] k \in {"Status", "status", "STATUS"} -> "status"
      [] k \in {"Reason_Code", "reason_code", "REASON_CODE"} -> "reason_code"
      [] k \in {"Exception_Reason", "exception_reason"} -> "exception_reason"
      [] k \in {"Asset_Name", "asset_name"} -> "asset_name"
      [] OTHER -> k

\* One parsed element of a backend response: a JSON object (kind "dict", d its
\* key -> value map) or any other JSON value (kind "scalar").
Dict(d) == [kind |-> "dict", d |-> d]
Scalar == [kind |-> "scalar", d |-> <<>>]

BackendStatuses == {"OK", "Exception", "Pending"}
BackendReason == "backend reason"

IsDict(o) == o.kind = "dict"

\* FindCol with the comparison col == name in place of col.lower() == name
FindColCaseSensitive(all_results, lname) ==
    LET has(i) == lname \in DOMAIN all_results[i].d
        hits == {i \in DOMAIN all_results : has(i)}
    IN  IF hits = {} THEN None ELSE lname

\* The column of DataFrame(all_results) a case-insensitive search finds first:
\* columns are in order of first appearance, so it is the key of the first
\* outcome that has one; None when no outcome has one.
FindCol(all_results, lname) ==
    LET has(i) == \E k \in DOMAIN all_results[i].d : Lower(k) = lname
        hits == {i \in DOMAIN all_results : has(i)}
    IN  IF hits = {} THEN None
        ELSE LET first == CHOOSE i \in hits : \A j \in hits : i <= j
             IN  CHOOSE k \in DOMAIN all_results[first].d : Lower(k) = lname

\* Cell reading only the columns named Change_ID, Status, Reason_Code
CellCanonicalOnly(o, col) ==
    IF col \in {"Change_ID", "Status", "Reason_Code"} \cap DOMAIN o.d THEN o.d[col] ELSE NaN

\* A cell of DataFrame(all_results): NaN where the outcome lacks the column
Cell(o, col) == IF col \in DOMAIN o.d THEN o.d[col] ELSE NaN

\* fillna that reads a missing verdict as "no violation"
fillnaOK(v, dflt) == IF v = NaN THEN "OK" ELSE v

fillna(v, dflt) == IF v = NaN THEN dflt ELSE v

\* ---------------------------------------------------- approver workflow
\* The subject records: Change_ID unique and non-null
ApproverRows(n) == [i \in 1..n |-> [Change_ID |-> ChangeID(i)]]

OutcomeIds == {ChangeID(i) : i \in 1..MaxRows}

\* What one element of a parsed approver response can be: the three fields
\* under the casing the prompt asks for, under other casings, with one field
\* absent, or not an object at all.
ApproverOutcomes ==
    {Dict(("Change_ID" :> c) @@ ("Status" :> s) @@ ("Reason_Code" :> BackendReason))
        : c \in OutcomeIds, s \in BackendStatuses}
    \cup {Dict(("change_id" :> c) @@ ("status" :> s) @@ ("reason_code" :> BackendReason))
        : c \in OutcomeIds, s \in BackendStatuses}
    \cup {Dict(("CHANGE_ID" :> c) @@ ("status" :> s) @@ ("Reason_Code" :> BackendReason))
        : c \in OutcomeIds, s \in BackendStatuses}
    \cup {Dict(("Status" :> s) @@ ("Reason_Code" :> BackendReason)) : s \in BackendStatuses}
    \cup {Dict(("Change_ID" :> c) @@ ("Reason_Code" :> BackendReason)) : c \in OutcomeIds}
    \cup {Dict(("Change_ID" :> c) @@ ("Status" :> s)) : c \in OutcomeIds, s \in BackendStatuses}
    \cup {Scalar}

\* validation_df: every row of original_data with one status and reason
DefaultRows(original_data, reason) ==
    [i \in DOMAIN original_data |->
        [Change_ID |-> original_data[i].Change_ID, Status |-> "Unknown", Reason_Code |-> reason]]

RECURSIVE MergeLeft(_, _, _, _, _)
\* pd.merge(original_data_clean, results_df[[id, status, reason]],
\*          left_on='Change_ID', right_on=id, how='left'): the left rows in
\* order, each once per matching right row, once with NaN when none matches
MergeLeft(left, results, idc, stc, rsc) ==
    IF left = <<>> THEN <<>>
    ELSE LET row == Head(left)
             Match(o) == Cell(o, idc) = row.Change_ID
             m == SelectSeq(results, Match)
             out == IF m = <<>>
                    THEN <<[Change_ID |-> row.Change_ID, Status |-> NaN, Reason_Code |-> NaN]>>
                    ELSE [j \in 1..Len(m) |->
                            [Change_ID |-> row.Change_ID,
                             Status |-> Cell(m[j], stc),
                             Reason_Code |-> Cell(m[j], rsc)]]
         IN  out \o MergeLeft(Tail(left), results, idc, stc, rsc)

FillMissing(df) ==
    [i \in DOMAIN df |->
        [Change_ID |-> df[i].Change_ID,
         Status |-> fillna(df[i].Status, "Unknown"),
         Reason_Code |-> fillna(df[i].Reason_Code, "Record not analyzed")]]

\* ApproverValidationAgent._process_ai_results: the value it leaves in
\* self.validation_results
ApproverProcessAiResults(all_results, original_data) ==
    IF all_results = <<>>
    THEN DefaultRows(original_data, "AI analysis failed")
    ELSE IF \E i \in DOMAIN all_results : ~IsDict(all_results[i])
    THEN \* pd.DataFrame / col.lower() raises; the except branch answers
         DefaultRows(original_data, "Error processing results")
    ELSE LET change_id_col == FindCol(all_results, "change_id")
             status_col == FindCol(all_results, "status")
             reason_code_col == FindCol(all_results, "reason_code")
         IN  IF change_id_col = None \/ status_col = None \/ reason_code_col = None
             THEN DefaultRows(original_data, "AI results missing required columns")
             ELSE FillMissing(MergeLeft(original_data, all_results,
                                        change_id_col, status_col, reason_code_col))

\* ApproverValidationAgent._process_batches_with_ai after the dispatch:
\* TRUE when its logging raises (line 181 reads the loop variable of a loop
\* that never ran; line 191 calls keys() on the first element of a batch)
ApproverBatchesRaise(data, brs) ==
    \/ Len(data) = 0
    \/ \E b \in DOMAIN brs : brs[b] # <<>> /\ ~IsDict(brs[b][1])

NumBatches(n) == (n + batch_size - 1) \div batch_size

\* The attributes of the workflow a specification does not run
ApproverIdle == merged_data = <<>> /\ validation_results = NoReport
SODIdle == merged_df = <<>> /\ violations_data = NoReport
TablesIdle ==
    /\ change_migration_data = <<>> /\ deployment_log_data = <<>> /\ iam_users_data = <<>>
    /\ batches = <<>> /\ batch_start = 0
RunIdle == workflow = None /\ inputs = <<>> /\ calls = <<>>
SchedIdle ==
    /\ running = FALSE /\ sched_status = "idle" /\ threads = <<>>
    /\ caller = "idle" /\ last_call = None
ParserIdle == text = <<>> /\ parsed = [raised |-> FALSE, value |-> <<>>, is_list |-> TRUE]
ClientIdle ==
    /\ has_client = TRUE /\ max_retries = 0 /\ poll_max_retries = 0 /\ agents = 0
    /\ task_pc = <<>> /\ retry_count = <<>> /\ poll_count = <<>>
    /\ thread_id = <<>> /\ result = <<>> /\ threads_created = <<>> /\ pending_limit = 0
    /\ finished = <<>> /\ sleeps = <<>>

ApproverInit ==
    /\ RunIdle /\ SchedIdle
    /\ pc = "dispatch"
    /\ SODIdle
    /\ ClientIdle
    /\ ParserIdle
    /\ TablesIdle
    /\ \E n \in 0..MaxRows : merged_data = ApproverRows(n)
    /\ batch_results = [b \in 1..NumBatches(Len(merged_data)) |-> <<>>]
    /\ validation_results = NoReport
    /\ ret = None

\* The dispatcher's task for batch b hands back one more parsed element
ApproverBatchOutcome ==
    /\ pc = "dispatch"
    /\ \E b \in DOMAIN batch_results, o \in ApproverOutcomes :
          /\ Len(batch_results[b]) < MaxOutcomes
          /\ batch_results' = [batch_results EXCEPT ![b] = Append(@, o)]
    /\ UNCHANGED <<pc, reportVars, clientVars, parserVars, tableVars, partVars, runVars, schedVars>>

\* ApproverValidationAgent.validate_approvers_with_ai, from the return of the
\* dispatch to its own return
validate_approvers_with_ai ==
    /\ pc = "dispatch"
    /\ pc' = "done"
    /\ IF ApproverBatchesRaise(merged_data, batch_results)
       THEN /\ ret' = "False"
            /\ UNCHANGED validation_results
       ELSE /\ validation_results' =
                    DataFrame(ApproverProcessAiResults(Flatten(batch_results), merged_data))
            /\ ret' = "True"
    /\ UNCHANGED <<merged_data, batch_results, merged_df, violations_data, clientVars, parserVars, tableVars, partVars, runVars, schedVars>>

ApproverNext == ApproverBatchOutcome \/ validate_approvers_with_ai

SpecApprover == ApproverInit /\ [][ApproverNext]_vars

\* -------------------------------------------------------- SOD workflow
NumUsers == 3       \* user IDs U1..U<NumUsers> besides the sentinel "Unknown"

UserID(i) == "U" \o ToString(i)
UserIds == {UserID(i) : i \in 1..NumUsers} \cup {"Unknown"}

AssetName(i) == "AST" \o ToString(i)
OtherAsset == "AST-other"

RoleOrder == <<"Requestor", "Developer", "Deployer", "Approver">>

\* The role-holder IDs of a row, in the order the canonicalizer reads them
RoleIds(row) == <<row.Requestor_ID, row.Developer_ID, row.Deployer_ID, row.Approver_ID>>

\* a == b on two cells: NaN equals nothing, itself included
CellEq(a, b) == a # NaN /\ a = b

\* The role-holder patterns of the joined rows: two roles sharing an ID, no
\* overlap, all four roles on one ID, every ID unknown
RolePatterns ==
    << <<"U1", "U1", "U2", "U3">>,
       <<"U1", "U2", "U3", "U4">>,
       <<"U1", "U1", "U1", "U1">>,
       <<"Unknown", "Unknown", "Unknown", "Unknown">> >>

SODRow(i, ids) ==
    [Change_ID |-> ChangeID(i), Asset_Name |-> AssetName(i),
     Requestor_ID |-> ids[1], Developer_ID |-> ids[2],
     Deployer_ID |-> ids[3], Approver_ID |-> ids[4]]

\* n joined rows; row i carries pattern number ((i + k) mod 4) + 1
SODRows(n, k) == [i \in 1..n |-> SODRow(i, RolePatterns[((i + k) % Len(RolePatterns)) + 1])]

\* What one element of a parsed SOD response can be: the fields under the
\* lower-case keys the prompt asks for (asset right or wrong), under the
\* capitalised keys of the input table, with one field absent, or no object.
SODOutcomes ==
    UNION {{Dict(("change_id" :> ChangeID(i)) @@ ("asset_name" :> a) @@ ("status" :> st)
                 @@ ("exception_reason" :> BackendReason))
                : a \in {AssetName(i), OtherAsset}, st \in BackendStatuses}
           : i \in 1..MaxRows}
    \cup {Dict(("Change_ID" :> ChangeID(i)) @@ ("Asset_Name" :> AssetName(i))
               @@ ("Status" :> "Exception") @@ ("Exception_Reason" :> BackendReason))
        : i \in 1..MaxRows}
    \cup {Dict(("change_id" :> ChangeID(i)) @@ ("status" :> "OK")
               @@ ("exception_reason" :> BackendReason)) : i \in 1..MaxRows}
    \cup {Dict(("change_id" :> ChangeID(i)) @@ ("asset_name" :> AssetName(i))
               @@ ("exception_reason" :> BackendReason)) : i \in 1..MaxRows}
    \cup {Dict(("change_id" :> ChangeID(i)) @@ ("asset_name" :> AssetName(i))
               @@ ("status" :> "Exception")) : i \in 1..MaxRows}
    \cup {Scalar}

\* --- _standardize_exception_reasons
\* user_roles: a dict literal keyed by the four IDs. A repeated key keeps the
\* place of its first occurrence and the value of its last.
UserRolesKeys(ids) ==
    LET First(i) == \A j \in 1..(i - 1) : ids[j] # ids[i]
        idx == SelectSeq(<<1, 2, 3, 4>>, First)
    IN  [j \in 1..Len(idx) |-> ids[idx[j]]]

UserRolesValue(ids, user_id) ==
    LET last == CHOOSE i \in 1..4 : ids[i] = user_id /\ \A j \in 1..4 : ids[j] = user_id => j <= i
    IN  <<RoleOrder[last]>>

\* roles after the four "if row[..] == user_id and .. not in roles: append"
ConsolidatedRoles(ids, user_id) ==
    LET roles == UserRolesValue(ids, user_id)
        Missing(i) == CellEq(ids[i], user_id) /\ RoleOrder[i] # roles[1]
        idx == SelectSeq(<<1, 2, 3, 4>>, Missing)
    IN  roles \o [j \in 1..Len(idx) |-> RoleOrder[idx[j]]]

\* violations_by_id without the "Skip unknown IDs" test
ViolationsByIdWithUnknown(ids) ==
    LET keys == UserRolesKeys(ids)
        Keep(user_id) == Len(ConsolidatedRoles(ids, user_id)) > 1
        kept == SelectSeq(keys, Keep)
    IN  [j \in 1..Len(kept) |-> [user_id |-> kept[j], roles |-> ConsolidatedRoles(ids, kept[j])]]

\* violations_by_id as the list of its items, in insertion order
ViolationsById(ids) ==
    LET keys == UserRolesKeys(ids)
        Keep(user_id) == user_id # "Unknown" /\ Len(ConsolidatedRoles(ids, user_id)) > 1
        kept == SelectSeq(keys, Keep)
    IN  [j \in 1..Len(kept) |-> [user_id |-> kept[j], roles |-> ConsolidatedRoles(ids, kept[j])]]

\* The text of four roles built from the roles list, as that of three is
ReasonPartFromRoles(roles, user_id) ==
    CASE Len(roles) = 4 ->
            roles[1] \o ", " \o roles[2] \o ", " \o roles[3] \o " & " \o roles[4]
                \o " share the same ID (" \o user_id \o ")"
      [] Len(roles) = 3 ->
            roles[1] \o ", " \o roles[2] \o " & " \o roles[3]
                \o " share the same ID (" \o user_id \o ")"
      [] Len(roles) = 2 ->
            roles[1] \o " and " \o roles[2] \o " share the same ID (" \o user_id \o ")"

\* One entry of reason_parts
ReasonPart(roles, user_id) ==
    CASE Len(roles) = 4 ->
            "Requestor, Developer, Deployer & Approver share the same ID (" \o user_id \o ")"
      [] Len(roles) = 3 ->
            roles[1] \o ", " \o roles[2] \o " & " \o roles[3]
                \o " share the same ID (" \o user_id \o ")"
      [] Len(roles) = 2 ->
            roles[1] \o " and " \o roles[2] \o " share the same ID (" \o user_id \o ")"

RECURSIVE JoinParts(_)
\* "; ".join(reason_parts)
JoinParts(parts) ==
    IF Len(parts) = 1 THEN parts[1]
    ELSE parts[1] \o "; " \o JoinParts(Tail(parts))

\* The loop body run on a row of any status
StandardizeRowAnyStatus(row) ==
    LET v == ViolationsById(RoleIds(row))
        reason_parts == [j \in 1..Len(v) |-> ReasonPart(v[j].roles, v[j].user_id)]
    IN  IF reason_parts = <<>> THEN row
        ELSE [row EXCEPT !.Exception_Reason = JoinParts(reason_parts), !.Status = "Exception"]

\* The row after the loop body ran on it
StandardizeRow(row) ==
    IF row.Status # "Exception" THEN row
    ELSE LET v == ViolationsById(RoleIds(row))
             reason_parts == [j \in 1..Len(v) |-> ReasonPart(v[j].roles, v[j].user_id)]
         IN  IF reason_parts = <<>> THEN row
             ELSE [row EXCEPT !.Exception_Reason = JoinParts(reason_parts)]

\* SODViolationDetectionAgent._standardize_exception_reasons on the rows of
\* self.violations_data (has_status: the frame has a Status column)
StandardizeExceptionReasons(rows, has_status) ==
    IF ~has_status THEN rows
    ELSE [i \in DOMAIN rows |-> StandardizeRow(rows[i])]

\* --- SODViolationDetectionAgent._process_ai_results
SODIds(df) == {df[i].Change_ID : i \in DOMAIN df}

\* The iteration orders a Python set of the given elements can have
Orders(S) == {o \in [1..Cardinality(S) -> S] : \A i, j \in DOMAIN o : o[i] = o[j] => i = j}

RowOf(df, id) == df[CHOOSE i \in DOMAIN df : df[i].Change_ID = id]

\* The record appended for a missing ID
MissingRecord(r) ==
    Dict(("change_id" :> r.Change_ID) @@ ("asset_name" :> r.Asset_Name)
         @@ ("status" :> "Unknown")
         @@ ("exception_reason" :> "Record not processed by AI analysis"))

\* One row of pd.merge(results_df, merged_df, left_on=[change_id, asset_name],
\* right_on=[Change_ID, Asset_Name], how='left') after the rename and drop
SODMergedRow(o, df) ==
    LET hit == {i \in DOMAIN df : /\ CellEq(Cell(o, "change_id"), df[i].Change_ID)
                                  /\ CellEq(Cell(o, "asset_name"), df[i].Asset_Name)}
    IN  IF hit = {}
        THEN [Change_ID |-> NaN, Status |-> Cell(o, "status"),
              Exception_Reason |-> Cell(o, "exception_reason"),
              Requestor_ID |-> NaN, Developer_ID |-> NaN,
              Deployer_ID |-> NaN, Approver_ID |-> NaN]
        ELSE LET r == df[CHOOSE i \in hit : TRUE]
             IN  [Change_ID |-> r.Change_ID, Status |-> Cell(o, "status"),
                  Exception_Reason |-> Cell(o, "exception_reason"),
                  Requestor_ID |-> r.Requestor_ID, Developer_ID |-> r.Developer_ID,
                  Deployer_ID |-> r.Deployer_ID, Approver_ID |-> r.Approver_ID]

HasColumn(results, col) == \E i \in DOMAIN results : col \in DOMAIN results[i].d

\* missing_ids = original_ids - processed_ids
MissingIds(all_results, df) ==
    SODIds(df) \ {Cell(all_results[i], "change_id") : i \in DOMAIN all_results}

\* The method's effect: raises (an exception leaves it) and data (the value of
\* self.violations_data when it returns or raises). order is the order in
\* which the loop meets the set missing_ids.
SODProcessAiResults(all_results, df, order) ==
    IF all_results = <<>>
    THEN [raises |-> FALSE, data |-> DataFrame(<<>>)]
    ELSE IF \E i \in DOMAIN all_results :
                ~IsDict(all_results[i]) \/ "change_id" \notin DOMAIN all_results[i].d
    THEN \* result['change_id'] raises TypeError or KeyError
         [raises |-> TRUE, data |-> NoReport]
    ELSE LET full == all_results \o [j \in DOMAIN order |-> MissingRecord(RowOf(df, order[j]))]
         IN  IF ~HasColumn(full, "asset_name")
             THEN \* pd.merge raises KeyError
                  [raises |-> TRUE, data |-> NoReport]
             ELSE LET merged == [k \in DOMAIN full |-> SODMergedRow(full[k], df)]
                      has_status == HasColumn(full, "status")
                  IN  \* without a Status column the closing log line raises
                      [raises |-> ~has_status,
                       data |-> DataFrame(StandardizeExceptionReasons(merged, has_status))]

SODInit ==
    /\ RunIdle /\ SchedIdle
    /\ pc = "dispatch"
    /\ ApproverIdle
    /\ ClientIdle
    /\ ParserIdle
    /\ TablesIdle
    /\ \E n \in 0..MaxRows, k \in 1..Len(RolePatterns) : merged_df = SODRows(n, k)
    /\ batch_results = [b \in 1..NumBatches(Len(merged_df)) |-> <<>>]
    /\ violations_data = NoReport
    /\ ret = None

\* The dispatcher's task for batch b hands back one more parsed element
SODBatchOutcome ==
    /\ pc = "dispatch"
    /\ \E b \in DOMAIN batch_results, o \in SODOutcomes :
          /\ Len(batch_results[b]) < MaxOutcomes
          /\ batch_results' = [batch_results EXCEPT ![b] = Append(@, o)]
    /\ UNCHANGED <<pc, reportVars, clientVars, parserVars, tableVars, partVars, runVars, schedVars>>

\* SODViolationDetectionAgent.detect_sod_violations_with_ai, from the return
\* of the dispatch to its own return
detect_sod_violations_with_ai ==
    /\ pc = "dispatch"
    /\ pc' = "done"
    /\ IF merged_df = <<>>
       THEN violations_data' = DataFrame(<<>>) /\ ret' = "True"
       ELSE LET flat == Flatten(batch_results)
            IN  \E order \in Orders(MissingIds(flat, merged_df)) :
                   LET r == SODProcessAiResults(flat, merged_df, order)
                   IN  /\ violations_data' = r.data
                       /\ ret' = IF r.raises THEN "False" ELSE "True"
    /\ UNCHANGED <<merged_data, batch_results, validation_results, merged_df, clientVars, parserVars, tableVars, partVars, runVars, schedVars>>

SODNext == SODBatchOutcome \/ detect_sod_violations_with_ai

SpecSOD == SODInit /\ [][SODNext]_vars

\* ------------------------------------------------- either workflow
\* One of the two workflows runs on its input tables
WorkflowsInit == ApproverInit \/ SODInit

WorkflowsNext ==
    \/ merged_df = <<>> /\ ApproverNext
    \/ merged_data = <<>> /\ SODNext

SpecWorkflows == WorkflowsInit /\ [][WorkflowsNext]_vars

\* ------------------------------------------------- canonicalizer alone
CanonStatuses == {"OK", "Exception", "Unknown"}

\* A row of self.violations_data as _process_ai_results leaves it
CanonRow(i, st, ids) ==
    [Change_ID |-> ChangeID(i), Status |-> st, Exception_Reason |-> BackendReason,
     Requestor_ID |-> ids[1], Developer_ID |-> ids[2],
     Deployer_ID |-> ids[3], Approver_ID |-> ids[4]]

\* A row with any role-holder IDs and any status
CanonRows == {CanonRow(1, st, ids) : st \in CanonStatuses, ids \in [1..4 -> UserIds]}

\* A second row, of any status and one of the role-holder patterns
CanonSecondRows ==
    {CanonRow(2, st, RolePatterns[k]) : st \in CanonStatuses, k \in DOMAIN RolePatterns}

\* The frames the canonicalizer is run on: one row, or two
CanonFrames ==
    {<<r>> : r \in CanonRows} \cup {<<r, q>> : r \in CanonRows, q \in CanonSecondRows}

CanonInit ==
    /\ RunIdle /\ SchedIdle
    /\ pc = "canon"
    /\ ApproverIdle
    /\ ClientIdle
    /\ ParserIdle
    /\ TablesIdle
    /\ merged_df = <<>>
    /\ batch_results = <<>>
    /\ \E rows \in CanonFrames : violations_data = DataFrame(rows)
    /\ ret = None

\* SODViolationDetectionAgent._standardize_exception_reasons
standardize_exception_reasons ==
    /\ pc = "canon"
    /\ pc' = "done"
    /\ violations_data' = DataFrame(StandardizeExceptionReasons(violations_data.rows, TRUE))
    /\ UNCHANGED <<merged_data, batch_results, validation_results, merged_df, ret, clientVars, parserVars, tableVars, partVars, runVars, schedVars>>

CanonNext == standardize_exception_reasons

SpecCanon == CanonInit /\ [][CanonNext]_vars

\* ------------------------------------------- retry client and dispatcher
NumTasks == 2           \* batches dispatched concurrently
MaxPolls == 2           \* polls of one run the backend leaves unanswered under concurrency

SOD_MAX_RETRIES == 3        \* default of _call_ai_with_thread_and_run
APPROVER_MAX_RETRIES == 5   \* passed by the approver's _call_ai_for_analysis_async
POLL_MAX_RETRIES == 30      \* default of _poll_for_completion

Tasks == DOMAIN task_pc

\* threads.create() answers with a fresh thread: the one of this task's attempt
NoThread == [task |-> 0, attempt |-> 0]
FreshThread(b, attempt) == [task |-> b, attempt |-> attempt]

\* What messages.list(thread_id) and the parser yield for a thread whose run
\* completed with a parseable, non-empty answer
Response(tid) == <<[thread |-> tid]>>

\* while retry_count < max_retries, with a strict comparison replaced
RetryAgainInclusive(count, limit) == count <= limit

\* while retry_count < max_retries
RetryAgain(count, limit) == count < limit

\* The method returns [] at once, whatever retry_count is
GiveUp(b) ==
    /\ retry_count' = [retry_count EXCEPT ![b] = @ + 1]
    /\ task_pc' = [task_pc EXCEPT ![b] = "returned"]
    /\ result' = [result EXCEPT ![b] = <<>>]

\* The attempt of task b ended without a result: retry_count += 1, then the
\* loop test; after the loop the method returns []
NextAttempt(b) ==
    /\ retry_count' = [retry_count EXCEPT ![b] = @ + 1]
    /\ IF RetryAgain(retry_count[b] + 1, max_retries)
       THEN /\ task_pc' = [task_pc EXCEPT ![b] = "threads_create"]
            /\ UNCHANGED result
       ELSE /\ task_pc' = [task_pc EXCEPT ![b] = "returned"]
            /\ result' = [result EXCEPT ![b] = <<>>]

\* The attempt raised: the except branch, which sleeps 2 seconds when another
\* attempt follows
AttemptRaises(b) ==
    /\ NextAttempt(b)
    /\ sleeps' = IF RetryAgain(retry_count[b] + 1, max_retries)
                 THEN [sleeps EXCEPT ![b] = @ + 1]
                 ELSE sleeps

\* The poll returned nothing ("Polling completed but no results returned")
AttemptFails(b) ==
    /\ NextAttempt(b)
    /\ UNCHANGED sleeps

\* The poll loop goes on whatever its retry_count is
PollRetryAlways(count, limit) == TRUE

\* while retry_count < max_retries, of _poll_for_completion
PollRetryAgain(count, limit) == count < limit

\* The pass of the poll loop ended without counting
PollForever(b) ==
    /\ task_pc' = [task_pc EXCEPT ![b] = "runs_get"]
    /\ UNCHANGED <<poll_count, retry_count, result, sleeps>>

\* One pass of the poll loop ended with retry_count += 1 (the run not yet
\* terminal, or an exception): poll again, or time out with []
PollAgain(b) ==
    /\ poll_count' = [poll_count EXCEPT ![b] = @ + 1]
    /\ IF PollRetryAgain(poll_count[b] + 1, poll_max_retries)
       THEN /\ task_pc' = [task_pc EXCEPT ![b] = "runs_get"]
            /\ UNCHANGED <<retry_count, result, sleeps>>
       ELSE AttemptFails(b)

\* What no step of a task changes
TaskFrame(b) ==
    /\ pc = "gather"
    /\ b \in Tasks
    /\ UNCHANGED <<pc, batch_results, reportVars, has_client, max_retries, poll_max_retries,
                 pending_limit, parserVars, tableVars, partVars, runVars, schedVars>>

\* The event loop notes a task whose coroutine returned with this step
Finish(b) ==
    finished' = IF task_pc'[b] = "returned" THEN Append(finished, b) ELSE finished

\* _call_ai_for_analysis_async up to the submit of _call_ai_with_thread_and_run
TaskStart(b) ==
    /\ TaskFrame(b)
    /\ task_pc[b] = "start"
    /\ IF has_client /\ RetryAgain(0, max_retries)
       THEN task_pc' = [task_pc EXCEPT ![b] = "threads_create"] /\ UNCHANGED result
       ELSE \* AttributeError caught by the method's except: return []
            /\ task_pc' = [task_pc EXCEPT ![b] = "returned"]
            /\ result' = [result EXCEPT ![b] = <<>>]
    /\ UNCHANGED <<retry_count, poll_count, thread_id, threads_created, agents, sleeps>>
    /\ Finish(b)

\* self.client.threads.create()
ThreadsCreate(b) ==
    /\ TaskFrame(b)
    /\ task_pc[b] = "threads_create"
    /\ threads_created' = [threads_created EXCEPT ![b] = @ + 1]
    /\ \/ /\ thread_id' = [thread_id EXCEPT ![b] = FreshThread(b, retry_count[b] + 1)]
          /\ task_pc' = [task_pc EXCEPT ![b] = "messages_create"]
          /\ UNCHANGED <<retry_count, result, sleeps>>
       \/ AttemptRaises(b) /\ UNCHANGED thread_id
    /\ UNCHANGED <<poll_count, agents>>
    /\ Finish(b)

\* self.client.messages.create(thread_id=..., role="user", ...)
MessagesCreate(b) ==
    /\ TaskFrame(b)
    /\ task_pc[b] = "messages_create"
    /\ \/ task_pc' = [task_pc EXCEPT ![b] = "list_agents"] /\ UNCHANGED <<retry_count, result, sleeps>>
       \/ AttemptRaises(b)
    /\ UNCHANGED <<poll_count, thread_id, threads_created, agents>>
    /\ Finish(b)

\* _get_agent_id: list(self.client.list_agents())
ListAgents(b) ==
    /\ TaskFrame(b)
    /\ task_pc[b] = "list_agents"
    /\ \/ task_pc' = [task_pc EXCEPT ![b] = IF agents = 0 THEN "create_agent" ELSE "runs_create"]
       \/ \* the call raises: _get_agent_id returns None
          task_pc' = [task_pc EXCEPT ![b] = "runs_create"]
    /\ UNCHANGED <<retry_count, poll_count, thread_id, result, threads_created, agents, sleeps>>
    /\ Finish(b)

\* _get_agent_id: self.client.create_agent(...)
CreateAgent(b) ==
    /\ TaskFrame(b)
    /\ task_pc[b] = "create_agent"
    /\ task_pc' = [task_pc EXCEPT ![b] = "runs_create"]
    /\ agents' \in {agents, agents + 1}
    /\ UNCHANGED <<retry_count, poll_count, thread_id, result, threads_created, sleeps>>
    /\ Finish(b)

\* self.client.runs.create(thread_id=..., agent_id=... or model=...)
RunsCreate(b) ==
    /\ TaskFrame(b)
    /\ task_pc[b] = "runs_create"
    /\ \/ /\ task_pc' = [task_pc EXCEPT ![b] = "runs_get"]
          /\ poll_count' = [poll_count EXCEPT ![b] = 0]
          /\ UNCHANGED <<retry_count, result, sleeps>>
       \/ AttemptRaises(b) /\ UNCHANGED poll_count
    /\ UNCHANGED <<thread_id, threads_created, agents>>
    /\ Finish(b)

\* _poll_for_completion: one self.client.runs.get(...) and what follows it
RunsGet(b) ==
    /\ TaskFrame(b)
    /\ task_pc[b] = "runs_get"
    /\ \E status \in {"raises", "in_progress", "completed", "failed", "cancelled", "expired"} :
          CASE status = "completed" ->
                  /\ task_pc' = [task_pc EXCEPT ![b] = "messages_list"]
                  /\ UNCHANGED <<retry_count, poll_count, result, sleeps>>
            [] status \in {"failed", "cancelled", "expired"} ->
                  AttemptFails(b) /\ UNCHANGED poll_count
            [] OTHER -> poll_count[b] < pending_limit /\ PollAgain(b)
    /\ UNCHANGED <<thread_id, threads_created, agents>>
    /\ Finish(b)

\* The thread of the task's first attempt
ThreadReadFirst(b) == FreshThread(b, 1)

\* The thread whose messages the task reads
ThreadRead(b) == thread_id[b]

\* _poll_for_completion on a completed run: self.client.messages.list(...),
\* then _extract_ai_response on the last assistant message
MessagesList(b) ==
    /\ TaskFrame(b)
    /\ task_pc[b] = "messages_list"
    /\ \E answer \in {"raises", "no_assistant_message", "nothing_extracted", "results"} :
          CASE answer = "raises" -> poll_count[b] < pending_limit /\ PollAgain(b)
            [] answer = "results" ->
                  /\ result' = [result EXCEPT ![b] = Response(ThreadRead(b))]
                  /\ task_pc' = [task_pc EXCEPT ![b] = "returned"]
                  /\ UNCHANGED <<retry_count, poll_count, sleeps>>
            [] OTHER -> AttemptFails(b) /\ UNCHANGED poll_count
    /\ UNCHANGED <<thread_id, threads_created, agents>>
    /\ Finish(b)

\* Entry i of results belongs to the i-th task to return
GatheredAsCompleted(i) == finished[i]

\* The entry of processed_results for batch b
ProcessedResultAllOrNothing(b) ==
    IF \E c \in Tasks : result[c] = <<>> THEN <<>> ELSE result[b]

\* asyncio.gather(*tasks): entry i of results belongs to the i-th task passed
Gathered(i) == i

\* _process_batches_async after gather(return_exceptions=True): the entry of
\* processed_results for batch b
ProcessedResult(b) == result[Gathered(b)]

\* _process_batches_async: every task is done, processed_results is returned
Gather ==
    /\ pc = "gather"
    /\ \A b \in Tasks : task_pc[b] = "returned"
    /\ pc' = "done"
    /\ batch_results' = [b \in Tasks |-> ProcessedResult(b)]
    /\ UNCHANGED <<reportVars, clientVars, parserVars, tableVars, partVars, runVars, schedVars>>

ClientNext ==
    \/ \E b \in 1..NumTasks :
          \/ TaskStart(b)
          \/ ThreadsCreate(b)
          \/ MessagesCreate(b)
          \/ ListAgents(b)
          \/ CreateAgent(b)
          \/ RunsCreate(b)
          \/ RunsGet(b)
          \/ MessagesList(b)
    \/ Gather

TasksInit(n) ==
    /\ RunIdle /\ SchedIdle
    /\ pc = "gather"
    /\ ApproverIdle /\ SODIdle /\ ParserIdle /\ TablesIdle /\ ret = None
    /\ batch_results = <<>>
    /\ has_client \in BOOLEAN
    /\ agents \in {0, 1}
    /\ task_pc = [b \in 1..n |-> "start"]
    /\ retry_count = [b \in 1..n |-> 0]
    /\ poll_count = [b \in 1..n |-> 0]
    /\ thread_id = [b \in 1..n |-> NoThread]
    /\ result = [b \in 1..n |-> <<>>]
    /\ threads_created = [b \in 1..n |-> 0]
    /\ sleeps = [b \in 1..n |-> 0]
    /\ finished = <<>>

\* One batch through the retry client, with the limits the agents use
RetryInit ==
    /\ TasksInit(1)
    /\ max_retries \in {SOD_MAX_RETRIES, APPROVER_MAX_RETRIES}
    /\ poll_max_retries = POLL_MAX_RETRIES
    /\ pending_limit = POLL_MAX_RETRIES

SpecRetry == RetryInit /\ [][ClientNext]_vars

\* The same, where every call of the client returns or raises in the end and
\* the event loop runs: a step that can be taken is taken
SpecRetryFair == SpecRetry /\ WF_vars(ClientNext)

\* NumTasks batches dispatched concurrently, against a backend that answers
\* every run for good within MaxPolls polls
DispatchInit ==
    /\ TasksInit(NumTasks)
    /\ max_retries = SOD_MAX_RETRIES
    /\ poll_max_retries = POLL_MAX_RETRIES
    /\ pending_limit = MaxPolls

SpecDispatch == DispatchInit /\ [][ClientNext]_vars

\* ------------------------------------------------------ response parser
MaxText == 4        \* longest response text of arbitrary tokens
MaxParts == 3       \* most passages a composed response text has

\* A response text is a sequence of tokens: the two code-fence markers, the
\* four JSON brackets, and prose (text holding none of these).
FenceJson == "<fence json>"   \* three backticks and the word json
Fence == "<fence>"            \* three backticks
Prose == "prose"
ResultsKey == "results:"      \* the key "results" of an object, with its colon
Number == "1"                 \* a JSON value that is neither a list nor an object
Tokens == {FenceJson, Fence, "[", "]", "{", "}", Prose, ResultsKey, Number}

\* The passages a longer response is composed of: prose, a fenced array, a
\* loose array, a loose object, an object with a results list, an array whose
\* element is not JSON
FencedArray == <<FenceJson, "[", "{", ResultsKey, Number, "}", "]", Fence>>
LooseArray == <<"[", "{", "}", "]">>
LooseObject == <<"{", "}">>
ResultsObject == <<"{", ResultsKey, "[", Number, "]", "}">>
MalformedArray == <<"[", "{", Prose, "}", "]">>

Parts == {<<Prose>>, FencedArray, LooseArray, LooseObject, ResultsObject, MalformedArray}

RECURSIVE Join(_)
\* The sequences of a sequence put end to end
Join(ps) == IF ps = <<>> THEN <<>> ELSE Head(ps) \o Join(Tail(ps))

\* _extract_ai_response hands over only non-empty text
Texts ==
    UNION {[1..n -> Tokens] : n \in 1..MaxText}
    \cup UNION {{Join(ps) : ps \in [1..n -> Parts]} : n \in 1..MaxParts}

RECURSIVE Str(_)
\* The characters of a token sequence
Str(t) == IF t = <<>> THEN "" ELSE Head(t) \o Str(Tail(t))

Least(S) == CHOOSE i \in S : \A j \in S : i <= j

NoMatch == [found |-> FALSE, group0 |-> <<>>, group1 |-> <<>>]

\* re.search of the fenced-block pattern: the first opening json fence and the
\* nearest fence after it, which the opening of another json fence supplies too
FenceSearch(t) ==
    LET Close(i) == {j \in (i + 1)..Len(t) : t[j] \in {Fence, FenceJson}}
        starts == {i \in DOMAIN t : t[i] = FenceJson /\ Close(i) # {}}
    IN  IF starts = {} THEN NoMatch
        ELSE LET i == Least(starts)
                 j == Least(Close(i))
             IN  [found |-> TRUE, group0 |-> SubSeq(t, i, j), group1 |-> SubSeq(t, i + 1, j - 1)]

\* re.search of the array pattern: [ { ... } ], shortest from the first start
ArraySearch(t) ==
    LET Close(i) == {j \in (i + 2)..(Len(t) - 1) : t[j] = "}" /\ t[j + 1] = "]"}
        starts == {i \in 1..(Len(t) - 1) : t[i] = "[" /\ t[i + 1] = "{" /\ Close(i) # {}}
    IN  IF starts = {} THEN NoMatch
        ELSE LET i == Least(starts)
                 j == Least(Close(i))
             IN  [found |-> TRUE, group0 |-> SubSeq(t, i, j + 1), group1 |-> <<>>]

\* re.search of the object pattern: { ... }, shortest from the first start
ObjectSearch(t) ==
    LET Close(i) == {j \in (i + 1)..Len(t) : t[j] = "}"}
        starts == {i \in DOMAIN t : t[i] = "{" /\ Close(i) # {}}
    IN  IF starts = {} THEN NoMatch
        ELSE LET i == Least(starts)
                 j == Least(Close(i))
             IN  [found |-> TRUE, group0 |-> SubSeq(t, i, j), group1 |-> <<>>]

RECURSIVE ValidJson(_)
\* json.loads accepts the tokens: a number, {}, [], [ value ] or
\* { "results": value }
ValidJson(t) ==
    \/ t = <<Number>>
    \/ t = <<"{", "}">>
    \/ t = <<"[", "]">>
    \/ Len(t) > 2 /\ t[1] = "[" /\ t[Len(t)] = "]" /\ ValidJson(SubSeq(t, 2, Len(t) - 1))
    \/ Len(t) > 3 /\ t[1] = "{" /\ t[2] = ResultsKey /\ t[Len(t)] = "}"
          /\ ValidJson(SubSeq(t, 3, Len(t) - 1))

\* The elements of the list the tokens denote, each as its text
Items(t) == IF Len(t) = 2 THEN <<>> ELSE <<Str(SubSeq(t, 2, Len(t) - 1))>>

\* 'results' in ai_response
HasResults(t) == t[1] = "{" /\ Len(t) > 2

\* ai_response['results']
UnderResults(t) == SubSeq(t, 3, Len(t) - 1)

\* The shape mapping that hands every object back unwrapped
ShapeOfUnwrapped(t) ==
    IF t[1] = "[" THEN Items(t) ELSE <<>>

\* What the parser returns for the value json.loads gave: a list as it is, the
\* value under results of a dict that has the key, [dict] for any other dict,
\* [] for any other value. A value that is no list is given as its text.
ShapeOf(t) ==
    IF t[1] = "[" THEN Items(t)
    ELSE IF t[1] = "{"
    THEN IF HasResults(t)
         THEN IF UnderResults(t)[1] = "[" THEN Items(UnderResults(t))
              ELSE <<Str(UnderResults(t))>>
         ELSE <<Str(t)>>
    ELSE <<>>

\* The value returned is a list: it is not when results holds something else
ShapeIsList(t) == ~(HasResults(t) /\ UnderResults(t)[1] # "[")

\* The record the SOD parser builds from text in which it found no JSON
FabricatedRecord == "{change_id, asset_name, status, exception_reason: text}"

Returns(v) == [raises |-> FALSE, value |-> v, is_list |-> TRUE]
Raises == [raises |-> TRUE, value |-> <<>>, is_list |-> TRUE]

\* json.loads(json_content) and the shape mapping after it
LoadAndShape(json_content) ==
    IF ValidJson(json_content)
    THEN [raises |-> FALSE, value |-> ShapeOf(json_content),
          is_list |-> ShapeIsList(json_content)]
    ELSE Raises

NoContent == [found |-> FALSE, content |-> <<>>]
Content(c) == [found |-> TRUE, content |-> c]

\* json_content as the SOD parser's chain selects it; none when the chain
\* ends in the branch that builds a record from the text
SODJsonContent(t) ==
    LET f == FenceSearch(t)
        a == ArraySearch(t)
        o == ObjectSearch(t)
    IN  IF f.found THEN Content(f.group1)
        ELSE IF a.found THEN Content(a.group0)
        ELSE IF o.found THEN Content(o.group0)
        ELSE IF ValidJson(t) THEN Content(t)
        ELSE NoContent

\* SODViolationDetectionAgent._extract_json_from_text, the body of its try
SODExtractBody(t) ==
    LET c == SODJsonContent(t)
    IN  IF c.found THEN LoadAndShape(c.content) ELSE Returns(<<FabricatedRecord>>)

\* re.sub at line 655 on a text whose tokens are separated by whitespace: the
\* closing alternative takes the whitespace and the three backticks of a
\* marker that is not at the start of the text, so an opening marker there
\* leaves its word "json" behind, a word that is not JSON
StripFences(t) ==
    LET Residue(i) ==
            IF t[i] = FenceJson /\ i > 1 THEN <<Prose>>
            ELSE IF t[i] \in {Fence, FenceJson} THEN <<>>
            ELSE <<t[i]>>
    IN  Join([i \in 1..Len(t) |-> Residue(i)])

\* json_content as the approver parser's chain selects it from the text
\* without its fence markers; none when the chain ends in "return []"
ApproverJsonContent(t) ==
    LET clean == StripFences(t)
        f == FenceSearch(clean)
        a == ArraySearch(clean)
        o == ObjectSearch(clean)
    IN  IF f.found THEN Content(f.group0)
        ELSE IF a.found THEN Content(a.group0)
        ELSE IF o.found THEN Content(o.group0)
        ELSE IF ValidJson(clean) THEN Content(clean)
        ELSE NoContent

\* ApproverValidationAgent._extract_json_from_text, the body of its try; a
\* JSONDecodeError of the final json.loads is answered with []
ApproverExtractBody(t) ==
    LET c == ApproverJsonContent(t)
    IN  IF c.found /\ ValidJson(c.content) THEN LoadAndShape(c.content) ELSE Returns(<<>>)

\* try: ... except Exception as e: return []
Guarded(body) ==
    IF body.raises THEN [raised |-> FALSE, value |-> <<>>, is_list |-> TRUE]
    ELSE [raised |-> FALSE, value |-> body.value, is_list |-> body.is_list]

ParserInit ==
    /\ RunIdle /\ SchedIdle
    /\ pc = "parse"
    /\ ApproverIdle /\ SODIdle /\ ClientIdle /\ TablesIdle /\ ret = None
    /\ batch_results = <<>>
    /\ text \in Texts
    /\ parsed = [raised |-> FALSE, value |-> <<>>, is_list |-> TRUE]

\* SODViolationDetectionAgent._extract_json_from_text(text)
sod_extract_json_from_text ==
    /\ pc = "parse"
    /\ pc' = "sod_parsed"
    /\ parsed' = Guarded(SODExtractBody(text))
    /\ UNCHANGED <<text, batch_results, reportVars, clientVars, tableVars, partVars, runVars, schedVars>>

\* ApproverValidationAgent._extract_json_from_text(text)
approver_extract_json_from_text ==
    /\ pc = "parse"
    /\ pc' = "approver_parsed"
    /\ parsed' = Guarded(ApproverExtractBody(text))
    /\ UNCHANGED <<text, batch_results, reportVars, clientVars, tableVars, partVars, runVars, schedVars>>

ParserNext == sod_extract_json_from_text \/ approver_extract_json_from_text

SpecParser == ParserInit /\ [][ParserNext]_vars

\* ------------------------------------------------------ context builder
\* The role holders a subject record names, and the deployers the log names
SubjectUsers == {"U1", "U2"}
Deployers == {"U1", "U3"}

\* The roster entry of a user
RosterEntry(u) == [User_ID |-> u, Mapped_DOA_Role |-> "Role of " \o u]

\* The rosters: any users of U1, U2 enrolled, in order
Rosters ==
    {<<>>, <<RosterEntry("U1")>>, <<RosterEntry("U2")>>,
     <<RosterEntry("U1"), RosterEntry("U2")>>}

SubjectRecord(i, requestor, developer) ==
    [Change_ID |-> ChangeID(i), Asset_Name |-> AssetName(i),
     Requestor_ID |-> requestor, Developer_ID |-> developer, Approver_ID |-> "U1"]

LogEntry(i, asset, deployer) ==
    [Linked_Change_ID |-> ChangeID(i), Asset_Name |-> asset, Deployer_ID |-> deployer]

\* What the deployment log holds about subject record i: nothing, one entry
\* for its asset, an entry for another asset only, or two entries for its asset
LogEntriesFor(i) ==
    {<<>>, <<LogEntry(i, OtherAsset, "U1")>>,
     <<LogEntry(i, AssetName(i), "U1"), LogEntry(i, AssetName(i), "U3")>>}
    \cup {<<LogEntry(i, AssetName(i), d)>> : d \in Deployers}

\* self._get_iam_role(user_id)
GetIamRole(iam, user_id) ==
    LET Is(e) == e.User_ID = user_id
        user_iam == SelectSeq(iam, Is)
    IN  IF Len(user_iam) > 0 THEN user_iam[1].Mapped_DOA_Role ELSE "Unknown"

\* The body of the loop of _prepare_merged_data for one subject record: the
\* rows it appends to merged_data
ChangeInfo(change_row, log, iam) ==
    LET Deployed(e) == /\ e.Linked_Change_ID = change_row.Change_ID
                       /\ e.Asset_Name = change_row.Asset_Name
        deployment_rows == SelectSeq(log, Deployed)
    IN  IF Len(deployment_rows) = 0
        THEN \* continue
             <<>>
        ELSE LET deployer_id == deployment_rows[1].Deployer_ID
             IN  <<[Change_ID |-> change_row.Change_ID,
                    Asset_Name |-> change_row.Asset_Name,
                    Requestor_ID |-> change_row.Requestor_ID,
                    Requestor_Role |-> GetIamRole(iam, change_row.Requestor_ID),
                    Approver_ID |-> change_row.Approver_ID,
                    Approver_Role |-> GetIamRole(iam, change_row.Approver_ID),
                    Developer_ID |-> change_row.Developer_ID,
                    Developer_Role |-> GetIamRole(iam, change_row.Developer_ID),
                    Deployer_ID |-> deployer_id,
                    Deployer_Role |-> GetIamRole(iam, deployer_id)]>>

RECURSIVE PrepareMergedData(_, _, _)
\* SODViolationDetectionAgent._prepare_merged_data on loaded tables
PrepareMergedData(changes, log, iam) ==
    IF changes = <<>> THEN <<>>
    ELSE ChangeInfo(Head(changes), log, iam) \o PrepareMergedData(Tail(changes), log, iam)

ContextInit ==
    /\ RunIdle /\ SchedIdle
    /\ pc = "prepare"
    /\ ApproverIdle /\ ClientIdle /\ ParserIdle /\ ret = None
    /\ batch_results = <<>>
    /\ merged_df = <<>>
    /\ violations_data = NoReport
    /\ \E n \in 0..MaxRows :
          /\ \E who \in [1..n -> SubjectUsers \X SubjectUsers] :
                change_migration_data = [i \in 1..n |-> SubjectRecord(i, who[i][1], who[i][2])]
          /\ \E logs \in [1..n -> UNION {LogEntriesFor(i) : i \in 1..MaxRows}] :
                /\ \A i \in 1..n : logs[i] \in LogEntriesFor(i)
                /\ deployment_log_data = Join(logs)
    /\ iam_users_data \in Rosters
    /\ batches = <<>> /\ batch_start = 0

\* merged_df = self._prepare_merged_data()
prepare_merged_data ==
    /\ pc = "prepare"
    /\ pc' = "prepared"
    /\ merged_df' = PrepareMergedData(change_migration_data, deployment_log_data, iam_users_data)
    /\ UNCHANGED <<merged_data, validation_results, violations_data, ret, batch_results,
                   clientVars, parserVars, tableVars, partVars, runVars, schedVars>>

ContextNext == prepare_merged_data

SpecContext == ContextInit /\ [][ContextNext]_vars

\* ---------------------------------------------------- batch partitioner
MaxBatchRows == 35      \* most rows handed to the partitioner

Min(a, b) == IF a < b THEN a ELSE b

\* The rows the workflow under way hands to _process_batches_with_ai
Data == IF merged_df # <<>> THEN merged_df ELSE merged_data

\* data.iloc[i:i+batch_size] with one row too many
SliceOverlapping(data, i) == SubSeq(data, i + 1, Min(i + batch_size + 1, Len(data)))

\* data.iloc[i:i+batch_size]
Slice(data, i) == SubSeq(data, i + 1, Min(i + batch_size, Len(data)))

PartitionInit ==
    /\ RunIdle /\ SchedIdle
    /\ pc = "partition"
    /\ ClientIdle /\ ParserIdle /\ ret = None
    /\ change_migration_data = <<>> /\ deployment_log_data = <<>> /\ iam_users_data = <<>>
    /\ validation_results = NoReport /\ violations_data = NoReport
    /\ batch_results = <<>>
    /\ \E n \in 0..MaxBatchRows :
          \/ merged_data = ApproverRows(n) /\ merged_df = <<>>
          \/ merged_data = <<>> /\ merged_df = SODRows(n, 1)
    /\ batches = <<>>
    /\ batch_start = 0

\* One pass of "for i in range(0, len(data), batch_size)": the batch is cut
\* and appended with its start index
AppendBatch ==
    /\ pc = "partition"
    /\ batch_start < Len(Data)
    /\ batches' = Append(batches, [rows |-> Slice(Data, batch_start), i |-> batch_start])
    /\ batch_start' = batch_start + batch_size
    /\ UNCHANGED <<pc, batch_results, reportVars, clientVars, parserVars, tableVars, runVars, schedVars>>

\* The range is exhausted: the batches go to the dispatcher
EndOfRange ==
    /\ pc = "partition"
    /\ batch_start >= Len(Data)
    /\ pc' = "partitioned"
    /\ UNCHANGED <<batch_results, reportVars, clientVars, parserVars, tableVars, partVars, runVars, schedVars>>

PartitionNext == AppendBatch \/ EndOfRange

SpecPartition == PartitionInit /\ [][PartitionNext]_vars

\* ----------------------------------------------------------------- run()
\* The stage methods run() calls, in its order
Stages(w) ==
    IF w = "sod"
    THEN <<"load_verified_population_data", "load_cicd_deployment_logs", "load_doa_matrix_data",
           "load_iam_users_data", "detect_sod_violations_with_ai", "save_violations_report">>
    ELSE <<"load_verified_population_data", "load_iam_users_data",
           "validate_approvers_with_ai", "save_validation_report">>

\* The stages that read an input file
LoadStages(w) == {Stages(w)[k] : k \in 1..(Len(Stages(w)) - 2)}

\* The run goes on whatever the stage returned
StopsRunNever(success) == FALSE

\* "if not success: ... return False"
StopsRun(success) == ~success

RunInit ==
    /\ pc = "run"
    /\ SchedIdle
    /\ ApproverIdle /\ SODIdle /\ ClientIdle /\ ParserIdle /\ TablesIdle
    /\ batch_results = <<>>
    /\ ret = None
    /\ workflow \in {"sod", "approver"}
    \* every input file is in order, is missing, or lacks a required column
    /\ inputs \in [LoadStages(workflow) -> {"ok", "file_missing", "column_missing"}]
    /\ calls = <<>>

NextStage == Stages(workflow)[Len(calls) + 1]

\* run() calls a stage that returned success, and goes on or returns False
RunStage(success) ==
    /\ calls' = Append(calls, NextStage)
    /\ IF StopsRun(success)
       THEN pc' = "done" /\ ret' = "False"
       ELSE UNCHANGED <<pc, ret>>
    /\ UNCHANGED <<workflow, inputs, batch_results, merged_data, validation_results, merged_df,
                   violations_data, clientVars, parserVars, tableVars, partVars, schedVars>>

\* run(): steps 1 to 4 (SOD), 1 and 2 (approver); a load_* method returns
\* True when it found the file and its required columns
run_load ==
    /\ pc = "run"
    /\ NextStage \in LoadStages(workflow)
    /\ RunStage(inputs[NextStage] = "ok")

\* run(): the step that dispatches to the backend and reconciles
run_detect ==
    /\ pc = "run"
    /\ Len(calls) = Len(Stages(workflow)) - 2
    /\ \E success \in BOOLEAN : RunStage(success)

\* run(): the step that saves the report, and the return after it; an
\* exception that leaves a stage is answered with False
run_save ==
    /\ pc = "run"
    /\ Len(calls) = Len(Stages(workflow)) - 1
    /\ calls' = Append(calls, NextStage)
    /\ pc' = "done"
    /\ \E output_file \in {"report.xlsx", None} :
          ret' = IF StopsRun(output_file # None) THEN "False" ELSE "True"
    /\ UNCHANGED <<workflow, inputs, batch_results, merged_data, validation_results, merged_df,
                   violations_data, clientVars, parserVars, tableVars, partVars, schedVars>>

RunNext == run_load \/ run_detect \/ run_save

SpecRun == RunInit /\ [][RunNext]_vars

\* =================================================================== claims
InputIds(rows) == {rows[i].Change_ID : i \in DOMAIN rows}
all_results == Flatten(batch_results)

\* C1: approver cardinality. Whatever the batches returned, validation_results
\* has exactly one row per input row and the same set of Change_IDs.
C1_ApproverCardinality ==
    validation_results.set =>
        /\ Len(validation_results.rows) = Len(merged_data)
        /\ InputIds(validation_results.rows) = InputIds(merged_data)

\* C2: SOD cardinality. Whatever the batches returned, violations_data has
\* exactly one row per joined row and the same set of Change_IDs.
C2_SODCardinality ==
    (pc = "done" /\ violations_data.set) =>
        /\ Len(violations_data.rows) = Len(merged_df)
        /\ InputIds(violations_data.rows) = InputIds(merged_df)

\* An outcome that carries the three required fields of the approver
\* workflow, under any casing
CarriesRequired(o) ==
    IsDict(o) /\ \A f \in {"change_id", "status", "reason_code"} :
                    \E k \in DOMAIN o.d : Lower(k) = f

\* The identifiers some outcome carries, under any casing of the key
CarriedIds(results) ==
    UNION {{results[i].d[k] : k \in {"Change_ID", "change_id", "CHANGE_ID"} \cap DOMAIN results[i].d}
           : i \in DOMAIN results}

RowsOf(report, id) == {i \in DOMAIN report.rows : report.rows[i].Change_ID = id}

\* C3: gap classification. Once some outcome carries the required fields,
\* every input row whose identifier no outcome carries is reported Unknown
\* with the reason "Record not processed by AI analysis".
C3_GapClassification ==
    (validation_results.set /\ \E i \in DOMAIN all_results : CarriesRequired(all_results[i])) =>
        \A id \in InputIds(merged_data) \ CarriedIds(all_results) :
            /\ RowsOf(validation_results, id) # {}
            /\ \A i \in RowsOf(validation_results, id) :
                  /\ validation_results.rows[i].Status = "Unknown"
                  /\ validation_results.rows[i].Reason_Code = "Record not processed by AI analysis"

\* C4: total failure. When the batches together returned nothing, the SOD
\* report has one row per joined row, each Unknown / "AI analysis failed".
C4_TotalFailure ==
    (pc = "done" /\ all_results = <<>>) =>
        /\ violations_data.set
        /\ Len(violations_data.rows) = Len(merged_df)
        /\ \A i \in DOMAIN violations_data.rows :
              /\ violations_data.rows[i].Status = "Unknown"
              /\ violations_data.rows[i].Exception_Reason = "AI analysis failed"

\* Some required field is the lower-casing of no key of any outcome
FieldAbsent(results) ==
    \E f \in {"change_id", "status", "reason_code"} :
        \A i \in DOMAIN results : \A k \in DOMAIN results[i].d : Lower(k) # f

SchemaMissingReason == "AI results missing required columns"

\* C5: schema missing. With outcomes that are objects: when a required field
\* matches none of their keys, validation_results is the input rows, each
\* Unknown / "AI results missing required columns", and no row carries that
\* reason otherwise.
C5_SchemaMissing ==
    (validation_results.set /\ \A i \in DOMAIN all_results : IsDict(all_results[i])) =>
        /\ (all_results # <<>> /\ FieldAbsent(all_results)) =>
              validation_results.rows =
                  [i \in DOMAIN merged_data |->
                      [Change_ID |-> merged_data[i].Change_ID, Status |-> "Unknown",
                       Reason_Code |-> SchemaMissingReason]]
        /\ (\E i \in DOMAIN validation_results.rows :
                validation_results.rows[i].Reason_Code = SchemaMissingReason) =>
              (all_results # <<>> /\ FieldAbsent(all_results))

C5_Witness ==
    /\ validation_results.set
    /\ Len(all_results) = 2
    /\ \A i \in DOMAIN all_results : IsDict(all_results[i])
    /\ FieldAbsent(all_results)
    /\ \E i \in DOMAIN all_results : "Change_ID" \in DOMAIN all_results[i].d
    /\ Len(validation_results.rows) = 2
    /\ validation_results.rows[2].Reason_Code = SchemaMissingReason

\* C8: graceful degradation. Whatever the backend returned for a non-empty
\* input, validate_approvers_with_ai returns True and every input row is in
\* the report, as an Unknown row when no outcome carries its identifier.
C8_GracefulDegradation ==
    (pc = "done" /\ merged_data # <<>>) =>
        /\ ret = "True"
        /\ validation_results.set
        /\ \A id \in InputIds(merged_data) :
              /\ RowsOf(validation_results, id) # {}
              /\ id \notin CarriedIds(all_results) =>
                    \A i \in RowsOf(validation_results, id) :
                        validation_results.rows[i].Status = "Unknown"

\* The roles held by user_id, in the fixed order Requestor, Developer,
\* Deployer, Approver
Holders(ids, user_id) ==
    LET Holds(i) == ids[i] = user_id
        idx == SelectSeq(<<1, 2, 3, 4>>, Holds)
    IN  [j \in 1..Len(idx) |-> RoleOrder[idx[j]]]

\* The IDs other than "Unknown" that two or more roles of the row share
SharedIds(ids) ==
    {ids[i] : i \in 1..4} \cap {u \in UserIds \ {"Unknown"} : Len(Holders(ids, u)) >= 2}

FixedOrderText(h, user_id) ==
    IF Len(h) = 2
    THEN h[1] \o " and " \o h[2] \o " share the same ID (" \o user_id \o ")"
    ELSE h[1] \o ", " \o h[2] \o " & " \o h[3] \o " share the same ID (" \o user_id \o ")"

\* C10: canonical role order. An Exception row in which exactly two or three
\* roles share one ID (and no other ID is shared) has the reason that names
\* those roles in the order Requestor, Developer, Deployer, Approver.
C10_CanonicalRoleOrder ==
    pc = "done" =>
        \A i \in DOMAIN violations_data.rows :
            LET row == violations_data.rows[i]
                ids == RoleIds(row)
            IN  (row.Status = "Exception" /\ Cardinality(SharedIds(ids)) = 1) =>
                    \A u \in SharedIds(ids) :
                        Len(Holders(ids, u)) \in {2, 3} =>
                            row.Exception_Reason = FixedOrderText(Holders(ids, u), u)

OwnExchange(b) ==
    IF has_client /\ retry_count[b] < max_retries
    THEN Response(FreshThread(b, threads_created[b]))
    ELSE <<>>

\* C7: dispatcher isolation. When the dispatch returns, it has one result per
\* batch, and each is what that batch's own exchange produced: empty for a
\* batch that failed, whatever its siblings did.
C7_DispatcherIsolation ==
    pc = "done" =>
        /\ DOMAIN batch_results = Tasks
        /\ \A b \in Tasks : batch_results[b] = OwnExchange(b)

C7_Witness ==
    /\ pc = "done"
    /\ \E b, c \in Tasks :
          /\ retry_count[b] = max_retries /\ batch_results[b] = <<>>
          /\ retry_count[c] = 1 /\ batch_results[c] = Response(FreshThread(c, 2))

\* No part of the text is a JSON value
NoJsonIn(t) ==
    \A i, j \in DOMAIN t : i <= j => ~ValidJson(SubSeq(t, i, j))

\* C9: parser totality. _extract_json_from_text never raises, and for a text
\* no part of which is a JSON value it returns the empty list, in both agents.
C9_ParserTotality ==
    pc \in {"sod_parsed", "approver_parsed"} =>
        /\ ~parsed.raised
        /\ NoJsonIn(text) => parsed.value = <<>>

\* C11: canonicalizer authority. After the canonicalizer ran, no row with
\* status Exception still carries the reason text the backend supplied,
\* whatever its four role-holder IDs are.
C11_CanonicalizerAuthority ==
    pc = "done" =>
        \A i \in DOMAIN violations_data.rows :
            violations_data.rows[i].Status = "Exception" =>
                violations_data.rows[i].Exception_Reason # BackendReason

\* The value an outcome carries for a required field, under any casing of its key
ValueOf(o, f) == o.d[CHOOSE k \in DOMAIN o.d : Lower(k) = f]

\* Every outcome is an object with the three required fields, and all use the
\* same key names
UniformCasing(results) ==
    /\ results # <<>>
    /\ \A i \in DOMAIN results : CarriesRequired(results[i])
    /\ \A i, j \in DOMAIN results : DOMAIN results[i].d = DOMAIN results[j].d

RECURSIVE VerdictsOnRows(_, _)
\* The input rows in order, each with the status and reason of every outcome
\* that carries its identifier, or Unknown / "Record not analyzed" when none does
VerdictsOnRows(rows, results) ==
    IF rows = <<>> THEN <<>>
    ELSE LET id == Head(rows).Change_ID
             Mine(o) == ValueOf(o, "change_id") = id
             m == SelectSeq(results, Mine)
             out == IF m = <<>>
                    THEN <<[Change_ID |-> id, Status |-> "Unknown",
                            Reason_Code |-> "Record not analyzed"]>>
                    ELSE [j \in 1..Len(m) |->
                            [Change_ID |-> id, Status |-> ValueOf(m[j], "status"),
                             Reason_Code |-> ValueOf(m[j], "reason_code")]]
         IN  out \o VerdictsOnRows(Tail(rows), results)

\* C12: case-insensitive extraction (approver). Outcomes keyed in one casing,
\* whichever it is (CHANGE_ID / status / Reason_Code, all lower case, ...), are
\* reconciled as outcomes keyed Change_ID / Status / Reason_Code are: each row
\* an outcome names gets that outcome's status and reason.
C12_ApproverCaseInsensitive ==
    (validation_results.set /\ UniformCasing(all_results)) =>
        validation_results.rows = VerdictsOnRows(merged_data, all_results)

C12_Witness ==
    /\ validation_results.set
    /\ UniformCasing(all_results)
    /\ "CHANGE_ID" \in DOMAIN all_results[1].d
    /\ "status" \in DOMAIN all_results[1].d
    /\ \E i \in DOMAIN validation_results.rows :
          /\ validation_results.rows[i].Status = "Exception"
          /\ validation_results.rows[i].Reason_Code = BackendReason

\* An outcome that carries the four fields of the SOD workflow, under any casing
SODCarries(o) ==
    IsDict(o) /\ \A f \in {"change_id", "asset_name", "status", "exception_reason"} :
                    \E k \in DOMAIN o.d : Lower(k) = f

\* C13: case-insensitive extraction (SOD). Whatever the casing of the keys of
\* the outcomes, the report is produced, and every outcome that names a joined
\* row (identifier and asset) puts its status on a report row of that identifier.
C13_SODCaseInsensitive ==
    (pc = "done" /\ all_results # <<>>
        /\ \A i \in DOMAIN all_results : SODCarries(all_results[i])) =>
        /\ violations_data.set
        /\ \A i \in DOMAIN all_results :
              LET o == all_results[i]
                  id == ValueOf(o, "change_id")
              IN  (\E r \in DOMAIN merged_df :
                        /\ merged_df[r].Change_ID = id
                        /\ merged_df[r].Asset_Name = ValueOf(o, "asset_name")) =>
                     \E j \in DOMAIN violations_data.rows :
                        /\ violations_data.rows[j].Change_ID = id
                        /\ violations_data.rows[j].Status = ValueOf(o, "status")

\* The outcome carries value v for field f, under any casing of the key
Carries(o, f, v) == IsDict(o) /\ \E k \in DOMAIN o.d : Lower(k) = f /\ o.d[k] = v

\* Some outcome carries the identifier together with the status
VerdictFor(results, id, status) ==
    \E i \in DOMAIN results :
        Carries(results[i], "change_id", id) /\ Carries(results[i], "status", status)

\* C14: no fabricated verdicts. In the report of either workflow a row of the
\* input has status OK or Exception only if some outcome carried its identifier
\* with that status; a row no outcome names is never OK.
C14_NoFabricatedVerdicts ==
    /\ validation_results.set =>
          \A i \in DOMAIN validation_results.rows :
              LET row == validation_results.rows[i]
              IN  row.Status \in {"OK", "Exception"} =>
                      VerdictFor(all_results, row.Change_ID, row.Status)
    /\ violations_data.set =>
          \A i \in DOMAIN violations_data.rows :
              LET row == violations_data.rows[i]
              IN  (row.Change_ID \in InputIds(merged_df) /\ row.Status \in {"OK", "Exception"}) =>
                      VerdictFor(all_results, row.Change_ID, row.Status)

C14_Witness ==
    /\ validation_results.set
    /\ Len(validation_results.rows) = 2
    /\ validation_results.rows[1].Status = "OK"
    /\ validation_results.rows[2].Status = "Unknown"
    /\ validation_results.rows[2].Change_ID \notin CarriedIds(all_results)

\* The joined rows made for a subject record
JoinedFor(r) == {j \in DOMAIN merged_df : merged_df[j].Change_ID = r.Change_ID}

Enrolled(u) == \E e \in DOMAIN iam_users_data : iam_users_data[e].User_ID = u

InLog(r) ==
    \E e \in DOMAIN deployment_log_data :
        /\ deployment_log_data[e].Linked_Change_ID = r.Change_ID
        /\ deployment_log_data[e].Asset_Name = r.Asset_Name

\* C15: the context builder is row-preserving. Every subject record gets
\* exactly one joined row, in input order; a role holder who is not on the
\* roster has the role "Unknown", and a record the deployment log does not
\* know has the deployer "Unknown".
C15_ContextBuilder ==
    pc = "prepared" =>
        /\ Len(merged_df) = Len(change_migration_data)
        /\ \A i \in DOMAIN change_migration_data :
              LET r == change_migration_data[i]
              IN  /\ Cardinality(JoinedFor(r)) = 1
                  /\ \A j \in JoinedFor(r) :
                        /\ ~Enrolled(r.Requestor_ID) => merged_df[j].Requestor_Role = "Unknown"
                        /\ ~Enrolled(r.Developer_ID) => merged_df[j].Developer_Role = "Unknown"
                        /\ ~InLog(r) => merged_df[j].Deployer_ID = "Unknown"

\* The rows of the batches, one after the other
BatchedRows == Join([k \in DOMAIN batches |-> batches[k].rows])

\* C16: batch partitioning. The N rows are cut into ceil(N / 10) batches that,
\* put end to end, are the input in its order; batch k starts at row
\* 10 (k - 1); every batch but the last has 10 rows and the last has 1 to 10.
C16_BatchPartitioning ==
    pc = "partitioned" =>
        LET N == Len(Data)
        IN  /\ Len(batches) = (N + batch_size - 1) \div batch_size
            /\ BatchedRows = Data
            /\ \A k \in DOMAIN batches :
                  /\ batches[k].i = batch_size * (k - 1)
                  /\ batches[k].rows = SubSeq(Data, batch_size * (k - 1) + 1,
                                              Min(batch_size * k, N))
                  /\ k < Len(batches) => Len(batches[k].rows) = batch_size
                  /\ Len(batches[k].rows) \in 1..batch_size

C16_Witness ==
    /\ pc = "partitioned"
    /\ Len(batches) = 3
    /\ Len(batches[1].rows) = batch_size
    /\ Len(batches[3].rows) \in 1..(batch_size - 1)

\* json_content as the parser that ran selected it
ChosenContent ==
    IF pc = "sod_parsed" THEN SODJsonContent(text) ELSE ApproverJsonContent(text)

\* C17: parsed-value shape mapping. When the content the parser selected is a
\* JSON value: a list is returned as it is, a dict with a results list gives
\* that list, any other dict is returned as the one element of a list, and any
\* other value gives the empty list.
C17_ShapeMapping ==
    (pc \in {"sod_parsed", "approver_parsed"}
        /\ ChosenContent.found /\ ValidJson(ChosenContent.content)) =>
        LET v == ChosenContent.content
        IN  /\ ~parsed.raised
            /\ v[1] = "[" => parsed.is_list /\ parsed.value = Items(v)
            /\ (v[1] = "{" /\ Len(v) > 2 /\ v[3] = "[") =>
                  parsed.is_list /\ parsed.value = Items(SubSeq(v, 3, Len(v) - 1))
            /\ v = <<"{", "}">> => parsed.is_list /\ parsed.value = <<"{}">>
            /\ v = <<Number>> => parsed.is_list /\ parsed.value = <<>>

C17_Witness ==
    /\ pc = "approver_parsed"
    /\ text = <<Prose, "{", ResultsKey, "[", Number, "]", "}">>
    /\ parsed.value = <<"1">>

\* C18: parser preference. From a text made of a fenced JSON array and loose
\* JSON, in either order, the parser returns the elements of the fenced array;
\* from prose around one array it returns the elements of that array.
C18_ParserPreference ==
    pc \in {"sod_parsed", "approver_parsed"} =>
        /\ \A loose \in {LooseArray, LooseObject} :
              text \in {FencedArray \o loose, loose \o FencedArray} =>
                  parsed.value = <<"{results:1}">>
        /\ text = <<Prose>> \o LooseArray \o <<Prose>> => parsed.value = <<"{}">>

ReportStatuses == {"OK", "Exception", "Unknown"}

\* C19: status domain. Every row of the report of either workflow has a status
\* among OK, Exception and Unknown, whatever statuses the outcomes carried.
C19_StatusDomain ==
    /\ validation_results.set =>
          \A i \in DOMAIN validation_results.rows :
              validation_results.rows[i].Status \in ReportStatuses
    /\ violations_data.set =>
          \A i \in DOMAIN violations_data.rows :
              violations_data.rows[i].Status \in ReportStatuses

\* C20: batch index preservation. The list _process_batches_async returns has
\* exactly one entry per dispatched batch, and entry i is what the task of
\* batch i returned, in whatever order the tasks returned.
C20_BatchIndexPreservation ==
    pc = "done" =>
        /\ Len(batch_results) = NumTasks
        /\ Len(finished) = NumTasks
        /\ \A i \in 1..NumTasks : batch_results[i] = result[i]

\* The last batch returned first, and every batch has an answer of its own
C20_Witness ==
    /\ pc = "done"
    /\ finished[1] = NumTasks
    /\ \A i \in 1..NumTasks : batch_results[i] # <<>> /\ batch_results[i][1].thread.task = i

\* The roles that hold the ID x on a row with the role-holder IDs ids
RolesOf(ids, x) == {RoleOrder[i] : i \in {j \in 1..4 : ids[j] = x}}

\* The overlaps of a row: the IDs other than "Unknown" held by two or more roles
OverlapIds(ids) ==
    {x \in {ids[i] : i \in 1..4} \ {"Unknown"} : Cardinality(RolesOf(ids, x)) >= 2}

\* The text for the roles o, a sequence, sharing the ID x
Rendered(o, x) ==
    LET tail == " share the same ID (" \o x \o ")"
    IN  CASE Len(o) = 2 -> o[1] \o " and " \o o[2] \o tail
          [] Len(o) = 3 -> o[1] \o ", " \o o[2] \o " & " \o o[3] \o tail
          [] Len(o) = 4 -> o[1] \o ", " \o o[2] \o ", " \o o[3] \o " & " \o o[4] \o tail

\* The texts that name the roles holding x, in some order
GroupTexts(ids, x) == {Rendered(o, x) : o \in Orders(RolesOf(ids, x))}

\* The texts that join one text of every overlap, in some order, with "; "
OverlapTexts(ids) ==
    LET all == UNION {GroupTexts(ids, x) : x \in OverlapIds(ids)}
        Choices(o) == {p \in [DOMAIN o -> all] : \A j \in DOMAIN o : p[j] \in GroupTexts(ids, o[j])}
    IN  UNION {{JoinParts(p) : p \in Choices(o)} : o \in Orders(OverlapIds(ids))}

\* C21: canonical grouping. On every Exception row the canonicalizer leaves a
\* reason that names exactly the groups of two or more roles holding one ID
\* other than "Unknown", one text per group, joined with "; "; roles that
\* share the ID "Unknown" are in no group, and a row without a group is
\* given no overlap text.
C21_CanonicalGrouping ==
    pc = "done" =>
        \A i \in DOMAIN violations_data.rows :
            LET row == violations_data.rows[i]
            IN  row.Status = "Exception" =>
                    IF OverlapIds(RoleIds(row)) = {}
                    THEN row.Exception_Reason = BackendReason
                    ELSE row.Exception_Reason \in OverlapTexts(RoleIds(row))

\* Two groups on one row
C21_Witness ==
    /\ pc = "done"
    /\ Len(violations_data.rows) = 1
    /\ RoleIds(violations_data.rows[1]) = <<"U1", "U2", "U1", "U2">>
    /\ violations_data.rows[1].Exception_Reason =
          "Deployer and Requestor share the same ID (U1); Approver and Developer share the same ID (U2)"

\* C22: canonical four-role text. An Exception row whose four role-holder IDs
\* are one ID X other than "Unknown" has exactly the reason
\* "Requestor, Developer, Deployer & Approver share the same ID (X)".
C22_FourRoleText ==
    pc = "done" =>
        \A i \in DOMAIN violations_data.rows :
            LET row == violations_data.rows[i]
                X == row.Requestor_ID
            IN  (row.Status = "Exception" /\ X # "Unknown" /\ RoleIds(row) = <<X, X, X, X>>) =>
                    row.Exception_Reason =
                        "Requestor, Developer, Deployer & Approver share the same ID (" \o X \o ")"

C22_Witness ==
    /\ pc = "done"
    /\ \E i \in DOMAIN violations_data.rows :
          /\ violations_data.rows[i].Status = "Exception"
          /\ RoleIds(violations_data.rows[i]) = <<"U2", "U2", "U2", "U2">>
          /\ violations_data.rows[i].Exception_Reason =
                "Requestor, Developer, Deployer & Approver share the same ID (U2)"

\* C23: canonicalizer frame. _standardize_exception_reasons keeps the number
\* of rows, and on every row the status, the identifier and the role-holder
\* IDs; it keeps the reason of every row whose status is not Exception.
C23_CanonicalizerFrame ==
    [][(pc = "canon" /\ pc' = "done") =>
          /\ Len(violations_data'.rows) = Len(violations_data.rows)
          /\ \A i \in DOMAIN violations_data.rows :
                LET old == violations_data.rows[i]
                    new == violations_data'.rows[i]
                IN  /\ new.Status = old.Status
                    /\ new.Change_ID = old.Change_ID
                    /\ RoleIds(new) = RoleIds(old)
                    /\ old.Status # "Exception" => new.Exception_Reason = old.Exception_Reason]_vars

\* The canonicalizer ran on an Exception row it rewrote and an OK row whose
\* roles overlap, which it left alone
C23_Witness ==
    /\ pc = "done"
    /\ Len(violations_data.rows) = 2
    /\ violations_data.rows[1].Status = "Exception"
    /\ violations_data.rows[1].Exception_Reason # BackendReason
    /\ violations_data.rows[2].Status = "OK"
    /\ RoleIds(violations_data.rows[2]) = <<"U1", "U1", "U1", "U1">>
    /\ violations_data.rows[2].Exception_Reason = BackendReason

\* The stages of the run whose input is not in order
FailingLoads ==
    {k \in 1..Len(Stages(workflow)) :
        Stages(workflow)[k] \in DOMAIN inputs /\ inputs[Stages(workflow)[k]] # "ok"}

\* C24: precondition failures stop the run. run() calls its stages in the fixed
\* order, each at most once; when the input of a load stage is missing or
\* lacks a required column, the first such stage is the last stage called,
\* run() returns False, and neither the dispatch nor the save is called.
C24_PreconditionFailuresStop ==
    workflow # None =>
        /\ calls = SubSeq(Stages(workflow), 1, Len(calls))
        /\ FailingLoads # {} =>
              /\ Len(calls) <= Least(FailingLoads)
              /\ pc = "done" => Len(calls) = Least(FailingLoads) /\ ret = "False"

C24_Witness ==
    /\ pc = "done"
    /\ workflow = "sod"
    /\ inputs["load_verified_population_data"] = "ok"
    /\ inputs["load_cicd_deployment_logs"] = "ok"
    /\ inputs["load_doa_matrix_data"] = "column_missing"
    /\ calls = SubSeq(Stages("sod"), 1, 3)
    /\ ret = "False"

\* The positions of a task inside _poll_for_completion
InPoll == {"runs_get", "messages_list"}

\* C25: bounded polling. _poll_for_completion makes a status query only while
\* fewer than its max_retries passes are counted, so at most max_retries
\* queries; the pass that reaches max_retries ends the poll with the empty
\* list, which the caller counts as a failed attempt. The poll never raises.
C25_BoundedPolling ==
    [][\A b \in Tasks :
          /\ poll_count'[b] <= poll_max_retries
          /\ task_pc'[b] \in InPoll => poll_count'[b] < poll_max_retries
          /\ (task_pc[b] \in InPoll /\ poll_count'[b] = poll_max_retries) =>
                /\ retry_count'[b] = retry_count[b] + 1
                /\ sleeps'[b] = sleeps[b]
                /\ task_pc'[b] \in {"threads_create", "returned"}
                /\ task_pc'[b] = "returned" => result'[b] = <<>>]_vars

\* A poll timed out after the default 30 passes and a second attempt follows
C25_Witness ==
    /\ poll_max_retries = POLL_MAX_RETRIES
    /\ poll_count[1] = POLL_MAX_RETRIES
    /\ task_pc[1] = "threads_create"
    /\ retry_count[1] = 1

\* The positions of a task inside an attempt of _call_ai_with_thread_and_run
InAttempt == {"threads_create", "messages_create", "list_agents", "create_agent",
              "runs_create", "runs_get", "messages_list"}

\* C26: retryable classification. A step that ends an attempt without a
\* result (a call that throws, a run that failed, was cancelled or expired, a
\* poll that timed out, an answer with nothing to extract) counts one failed
\* attempt; while fewer than max_retries attempts were made the client goes
\* on to a fresh attempt, on a thread of its own, and only the attempt that
\* exhausts the budget makes it return the empty list.
C26_RetryableClassification ==
    [][\A b \in Tasks :
          /\ (task_pc[b] \in InAttempt /\ task_pc'[b] \in {"threads_create", "returned"}
                  /\ result'[b] = <<>>) =>
                /\ retry_count'[b] = retry_count[b] + 1
                /\ task_pc'[b] = "threads_create" <=> retry_count'[b] < max_retries
                /\ task_pc'[b] = "returned" <=> retry_count'[b] = max_retries
          /\ retry_count'[b] # retry_count[b] => task_pc'[b] \in {"threads_create", "returned"}
          /\ (task_pc[b] = "threads_create" /\ task_pc'[b] = "messages_create") =>
                /\ thread_id'[b] = FreshThread(b, retry_count[b] + 1)
                /\ thread_id'[b] # thread_id[b]]_vars

\* A third attempt is under way on its own thread
C26_Witness ==
    /\ task_pc[1] = "runs_get"
    /\ retry_count[1] = 2
    /\ thread_id[1] = FreshThread(1, 3)
    /\ threads_created[1] = 3

\* C27: fixed inter-attempt delay. The client has slept once for every failed
\* attempt that another attempt follows, whatever ended the attempt, and not
\* after the final attempt.
C27_FixedInterAttemptDelay ==
    \A b \in Tasks :
        has_client =>
            sleeps[b] = IF retry_count[b] < max_retries THEN retry_count[b] ELSE max_retries - 1

\* C28: retry stops at first success. The client makes at most max_retries
\* attempts; when an attempt yields a result the client has returned, the
\* result is the answer on the thread of that attempt, and the client makes
\* no call after it.
C28_RetryStopsAtFirstSuccess ==
    [][\A b \in Tasks :
          /\ threads_created'[b] <= max_retries
          /\ result'[b] # <<>> =>
                /\ task_pc'[b] = "returned"
                /\ threads_created'[b] = retry_count'[b] + 1
                /\ result'[b] = Response(FreshThread(b, threads_created'[b]))
          /\ task_pc[b] = "returned" =>
                /\ task_pc'[b] = "returned"
                /\ result'[b] = result[b]
                /\ threads_created'[b] = threads_created[b]
                /\ retry_count'[b] = retry_count[b]]_vars

\* The second attempt succeeded, and the dispatch went on after it
C28_Witness ==
    /\ pc = "done"
    /\ threads_created[1] = 2
    /\ retry_count[1] = 1
    /\ batch_results[1] = Response(FreshThread(1, 2))

\* C29: no coordinated writes. The concurrent batches create at most one
\* agent in total on a backend that listed none.
C29_NoCoordinatedWrites == agents <= 1

\* C30: pipeline termination. With every call returning or raising in the
\* end, and runs that may never reach a final status, the dispatch returns
\* one entry per batch, the empty list for a batch no attempt answered.
C30_PipelineTermination ==
    <>(/\ pc = "done"
       /\ DOMAIN batch_results = Tasks
       /\ \A b \in Tasks : retry_count[b] = max_retries => batch_results[b] = <<>>)

\* No attempt of the batch was answered, the last one polled to its limit
C30_Witness ==
    /\ pc = "done"
    /\ max_retries = SOD_MAX_RETRIES
    /\ retry_count[1] = SOD_MAX_RETRIES
    /\ poll_count[1] = POLL_MAX_RETRIES
    /\ sleeps[1] = 0
    /\ batch_results = << <<>> >>

\* C31: parser fallback continues past a failed extractor. From a text made of
\* a malformed array followed by a well-formed JSON object, the parser of
\* either agent returns what that object gives, not the empty list.
C31_ParserFallbackContinues ==
    pc \in {"sod_parsed", "approver_parsed"} =>
        \A object \in {LooseObject, ResultsObject} :
            text = MalformedArray \o object =>
                /\ ~parsed.raised
                /\ parsed.value = LoadAndShape(object).value

\* ------------------------------------- approver workflow, several batches
\* The rows data.iloc[i:i+batch_size] of batch b (b counted from 1)
BatchRows(data, b) == Slice(data, (b - 1) * batch_size)

\* What the backend can answer about the first row of batch b: the three
\* fields under one of the casings, or with one field absent
BatchOutcomes(b) ==
    LET c == ChangeID((b - 1) * batch_size + 1)
        Verdicts == {"OK", "Exception"}
    IN  {Dict(("Change_ID" :> c) @@ ("Status" :> s) @@ ("Reason_Code" :> BackendReason))
            : s \in Verdicts}
        \cup {Dict(("change_id" :> c) @@ ("status" :> s) @@ ("reason_code" :> BackendReason))
            : s \in Verdicts}
        \cup {Dict(("Status" :> s) @@ ("Reason_Code" :> BackendReason)) : s \in Verdicts}
        \cup {Dict(("Change_ID" :> c) @@ ("Reason_Code" :> BackendReason))}
        \cup {Dict(("Change_ID" :> c) @@ ("Status" :> s)) : s \in Verdicts}

\* More rows than one batch holds
ApproverBatchesInit ==
    /\ RunIdle /\ SchedIdle
    /\ pc = "dispatch"
    /\ SODIdle
    /\ ClientIdle
    /\ ParserIdle
    /\ TablesIdle
    /\ \E n \in 1..MaxRows : merged_data = ApproverRows(batch_size + n)
    /\ batch_results = [b \in 1..NumBatches(Len(merged_data)) |-> <<>>]
    /\ validation_results = NoReport
    /\ ret = None

\* The dispatcher's task for batch b hands back one more parsed element
\* about a row of its own batch
ApproverBatchAnswer ==
    /\ pc = "dispatch"
    /\ \E b \in 1..2, o \in BatchOutcomes(1) \cup BatchOutcomes(2) :
          /\ b \in DOMAIN batch_results
          /\ o \in BatchOutcomes(b)
          /\ Len(batch_results[b]) < MaxOutcomes
          /\ batch_results' = [batch_results EXCEPT ![b] = Append(@, o)]
    /\ UNCHANGED <<pc, reportVars, clientVars, parserVars, tableVars, partVars, runVars, schedVars>>

ApproverBatchesNext == ApproverBatchAnswer \/ validate_approvers_with_ai

SpecApproverBatches == ApproverBatchesInit /\ [][ApproverBatchesNext]_vars

\* Every outcome of the batch is keyed Change_ID / Status / Reason_Code
CanonicalKeys(results) ==
    \A i \in DOMAIN results : DOMAIN results[i].d \subseteq {"Change_ID", "Status", "Reason_Code"}

\* Every outcome of the batch has the three required fields
BatchComplete(results) ==
    results # <<>> /\ \A i \in DOMAIN results : CarriesRequired(results[i])

\* The row the report holds for every outcome of the batch carries the
\* status and the reason of that outcome
BatchVerdictsKept(results) ==
    \A i \in DOMAIN results :
        \E r \in RowsOf(validation_results, ValueOf(results[i], "change_id")) :
            /\ validation_results.rows[r].Status = ValueOf(results[i], "status")
            /\ validation_results.rows[r].Reason_Code = ValueOf(results[i], "reason_code")

GapFillReasons == {"Record not analyzed", "Record not processed by AI analysis"}

\* Every report row of a row of batch b is the gap-fill outcome
BatchGapFilled(b) ==
    \A i \in DOMAIN BatchRows(merged_data, b) :
        LET id == BatchRows(merged_data, b)[i].Change_ID
        IN  /\ RowsOf(validation_results, id) # {}
            /\ \A r \in RowsOf(validation_results, id) :
                  /\ validation_results.rows[r].Status = "Unknown"
                  /\ validation_results.rows[r].Reason_Code \in GapFillReasons

\* C32: per-batch unparseability is contained. When the outcomes of one batch
\* all lack one of the three required fields and the outcomes of every other
\* batch have them (all keyed Change_ID / Status / Reason_Code), every row of
\* that batch is reported Unknown with the not-processed reason, and every
\* outcome of the other batches is on the report row it names.
C32_BatchUnparseabilityContained ==
    (validation_results.set /\ Len(batch_results) = 2) =>
        \A b \in DOMAIN batch_results :
            LET other == 3 - b
            IN  (/\ batch_results[b] # <<>>
                 /\ FieldAbsent(batch_results[b])
                 /\ BatchComplete(batch_results[other])
                 /\ CanonicalKeys(batch_results[b])
                 /\ CanonicalKeys(batch_results[other])) =>
                    /\ BatchGapFilled(b)
                    /\ BatchVerdictsKept(batch_results[other])

\* C33: key casing may differ between batches. When every outcome has the
\* three required fields and each batch uses one casing of the keys, the
\* outcomes of both batches are on the report rows they name.
C33_CasingPerBatch ==
    (validation_results.set /\ Len(batch_results) = 2
        /\ UniformCasing(batch_results[1]) /\ UniformCasing(batch_results[2])) =>
        /\ BatchVerdictsKept(batch_results[1])
        /\ BatchVerdictsKept(batch_results[2])

\* ------------------------------------------ approver validation context
\* A string is the sequence of its pieces; "," is the separator join() writes
Comma == ","

\* A blank User_ID cell (read_csv makes it NaN, which is no str)
BlankId == <<NaN>>

\* The User_ID cells of the roster file: an ID, an ID with a comma in it, a
\* blank cell
RosterUserIds == {<<"U1">>, <<"U2", Comma, "U3">>, BlankId}
RosterIamRoles == {"Approver", "approver", NaN}
RosterDoaRoles == {"IT Manager", "Senior business manager", "Developer", NaN}

IamEntries ==
    {[User_ID |-> u, IAM_Role |-> r, Mapped_DOA_Role |-> m]
        : u \in RosterUserIds, r \in RosterIamRoles, m \in RosterDoaRoles}

\* The rosters iam_users_data can hold
IamRosters == UNION {[1..k -> IamEntries] : k \in 0..MaxRows}

RECURSIVE CommaJoin(_)
\* ','.join(ids)
CommaJoin(ids) ==
    IF ids = <<>> THEN <<>>
    ELSE IF Len(ids) = 1 THEN Head(ids)
    ELSE Head(ids) \o <<Comma>> \o CommaJoin(Tail(ids))

\* iam['User_ID'].tolist()
UserIdList(iam) == [i \in DOMAIN iam |-> iam[i].User_ID]

\* self.iam_users_data[self.iam_users_data['IAM_Role'] == 'Approver']
approver_roles(iam) ==
    LET IsApprover(e) == e.IAM_Role = "Approver"
    IN  SelectSeq(iam, IsApprover)

\* str.contains('IT Manager|Business Manager', case=False, na=False)
ContainsManager(role) == role \in {"IT Manager", "Senior business manager"}

\* The manager filter applied to the whole roster
ManagersOfAnyRole(iam) == SelectSeq(iam, LAMBDA e : ContainsManager(e.Mapped_DOA_Role))

\* approver_roles[approver_roles['Mapped_DOA_Role'].str.contains(...)]
it_bu_managers(iam) ==
    SelectSeq(approver_roles(iam), LAMBDA e : ContainsManager(e.Mapped_DOA_Role))

\* TRUE when the method raises: join() meets a blank User_ID, or .str is read
\* on a Mapped_DOA_Role column that holds no string (float dtype)
PrepareRaises(iam) ==
    \/ \E i \in DOMAIN iam : iam[i].User_ID = BlankId
    \/ iam # <<>> /\ \A i \in DOMAIN iam : iam[i].Mapped_DOA_Role = NaN

\* validation_data: the copy of change_migration_data with its three columns
PrepareDataForValidation(changes, iam) ==
    [i \in DOMAIN changes |->
        [Change_ID |-> changes[i].Change_ID,
         IAM_User_IDs |-> CommaJoin(UserIdList(iam)),
         IAM_Approver_IDs |-> CommaJoin(UserIdList(approver_roles(iam))),
         IT_BU_Manager_IDs |-> CommaJoin(UserIdList(it_bu_managers(iam)))]]

ValidationContextInit ==
    /\ RunIdle /\ SchedIdle
    /\ pc = "prepare_validation"
    /\ ApproverIdle /\ SODIdle /\ ClientIdle /\ ParserIdle /\ ret = None
    /\ batch_results = <<>>
    /\ deployment_log_data = <<>> /\ batches = <<>> /\ batch_start = 0
    /\ \E n \in 0..MaxRows : change_migration_data = ApproverRows(n)
    /\ \E roster \in IamRosters : iam_users_data = roster

\* ApproverValidationAgent._prepare_data_for_validation, to its return or raise
prepare_data_for_validation ==
    /\ pc = "prepare_validation"
    /\ IF PrepareRaises(iam_users_data)
       THEN pc' = "prepare_raised" /\ UNCHANGED merged_data
       ELSE /\ pc' = "validation_prepared"
            /\ merged_data' = PrepareDataForValidation(change_migration_data, iam_users_data)
    /\ UNCHANGED <<validation_results, merged_df, violations_data, ret, batch_results,
                   clientVars, parserVars, tableVars, partVars, runVars, schedVars>>

ValidationContextNext == prepare_data_for_validation

SpecValidationContext == ValidationContextInit /\ [][ValidationContextNext]_vars

\* The IDs a comma-separated string lists
IdsIn(string) == {string[i] : i \in DOMAIN string} \ {Comma}

\* C34: derived approver sets. When _prepare_data_for_validation returns, on
\* every output row the IDs of IT_BU_Manager_IDs are among those of
\* IAM_Approver_IDs, which are among those of IAM_User_IDs; all rows carry the
\* same three values; the output has one row per subject record, in input order.
C34_DerivedApproverSets ==
    pc = "validation_prepared" =>
        /\ Len(merged_data) = Len(change_migration_data)
        /\ \A i \in DOMAIN merged_data :
              /\ merged_data[i].Change_ID = change_migration_data[i].Change_ID
              /\ IdsIn(merged_data[i].IT_BU_Manager_IDs) \subseteq IdsIn(merged_data[i].IAM_Approver_IDs)
              /\ IdsIn(merged_data[i].IAM_Approver_IDs) \subseteq IdsIn(merged_data[i].IAM_User_IDs)
        /\ \A i, j \in DOMAIN merged_data :
              /\ merged_data[i].IAM_User_IDs = merged_data[j].IAM_User_IDs
              /\ merged_data[i].IAM_Approver_IDs = merged_data[j].IAM_Approver_IDs
              /\ merged_data[i].IT_BU_Manager_IDs = merged_data[j].IT_BU_Manager_IDs

C34_Witness ==
    /\ pc = "validation_prepared"
    /\ Len(merged_data) = 2
    /\ IdsIn(merged_data[2].IT_BU_Manager_IDs) = {"U1"}
    /\ IdsIn(merged_data[2].IAM_Approver_IDs) = {"U1", "U2", "U3"}
    /\ merged_data[2].IAM_User_IDs = <<"U2", Comma, "U3", Comma, "U1">>

\* ------------------------------------------------------------- scheduler
MaxThreads == 3     \* most _run_scheduler threads start() creates in one run

Returned(op, value) == [op |-> op, value |-> value]

\* The workflow attributes the scheduler does not touch
SchedulerFrame ==
    UNCHANGED <<pc, batch_results, reportVars, clientVars, parserVars, tableVars, partVars,
                runVars>>

\* Scheduler.__init__
SchedulerInit ==
    /\ RunIdle
    /\ pc = "scheduler"
    /\ ApproverIdle /\ SODIdle /\ ClientIdle /\ ParserIdle /\ TablesIdle
    /\ batch_results = <<>>
    /\ ret = None
    /\ running = FALSE
    /\ sched_status = "idle"
    /\ threads = <<>>
    /\ caller = "idle"
    /\ last_call = None

\* Scheduler.start(): False when self.running; otherwise the flag is set and
\* a new thread runs _run_scheduler, or Thread.start() raises
start ==
    /\ caller = "idle"
    /\ IF running
       THEN /\ last_call' = Returned("start", FALSE)
            /\ UNCHANGED <<running, sched_status, threads>>
       ELSE \/ /\ Len(threads) < MaxThreads
               /\ running' = TRUE
               /\ sched_status' = "running"
               /\ threads' = Append(threads, "while")
               /\ last_call' = Returned("start", TRUE)
            \/ /\ running' = FALSE
               /\ sched_status' = "error"
               /\ last_call' = Returned("start", FALSE)
               /\ UNCHANGED threads
    /\ UNCHANGED caller
    /\ SchedulerFrame

\* Scheduler.stop() up to thread.join(timeout=5): False when not running
stop ==
    /\ caller = "idle"
    /\ IF ~running
       THEN /\ last_call' = Returned("stop", FALSE)
            /\ UNCHANGED <<running, sched_status, caller>>
       ELSE /\ running' = FALSE
            /\ sched_status' = "stopped"
            /\ caller' = "join"
            /\ UNCHANGED last_call
    /\ UNCHANGED threads
    /\ SchedulerFrame

\* self.thread: the thread the last successful start() created
CurrentThread == Len(threads)

\* thread.join(timeout=5) returns: the thread has ended, or the five seconds
\* passed while it slept its ten seconds or ran an extraction
stop_join ==
    /\ caller = "join"
    /\ threads[CurrentThread] \in {"ended", "sleep", "extracting"}
    /\ caller' = "idle"
    /\ last_call' = Returned("stop", TRUE)
    /\ UNCHANGED <<running, sched_status, threads>>
    /\ SchedulerFrame

\* _run_scheduler: the test of 'while self.running' and of the due time
loop_test(t) ==
    /\ threads[t] = "while"
    /\ IF running
       THEN \E due \in BOOLEAN :
               threads' = [threads EXCEPT ![t] = IF due THEN "extracting" ELSE "sleep"]
       ELSE threads' = [threads EXCEPT ![t] = "ended"]
    /\ sched_status' = IF running /\ threads'[t] = "extracting" THEN "extracting" ELSE sched_status
    /\ UNCHANGED <<running, caller, last_call>>
    /\ SchedulerFrame

\* _execute_extraction returns (or answers an exception); time.sleep(10) begins
loop_extracted(t) ==
    /\ threads[t] = "extracting"
    /\ threads' = [threads EXCEPT ![t] = "sleep"]
    /\ \E raised \in BOOLEAN :
          sched_status' = IF raised THEN "error"
                          ELSE IF running THEN "running" ELSE "stopped"
    /\ UNCHANGED <<running, caller, last_call>>
    /\ SchedulerFrame

\* time.sleep(10) returns
loop_woke(t) ==
    /\ threads[t] = "sleep"
    /\ threads' = [threads EXCEPT ![t] = "while"]
    /\ UNCHANGED <<running, sched_status, caller, last_call>>
    /\ SchedulerFrame

SchedulerNext ==
    \/ start
    \/ stop
    \/ stop_join
    \/ \E t \in 1..MaxThreads :
          /\ t \in DOMAIN threads
          /\ (loop_test(t) \/ loop_extracted(t) \/ loop_woke(t))

SpecScheduler == SchedulerInit /\ [][SchedulerNext]_vars

\* The threads that run an extraction, or go on looping as the flag stands
AbleThreads == {t \in DOMAIN threads : threads[t] = "extracting" \/ (running /\ threads[t] # "ended")}

\* C35: single scheduler loop. After any sequence of start and stop calls at
\* most one _run_scheduler thread is live and able to run extractions; start
\* while running returns False and creates no thread; stop while not running
\* returns False and changes nothing.
C35_SingleSchedulerLoop == Cardinality(AbleThreads) <= 1

====
